---- MODULE Spec2Model ----
(***************************************************************************)
(* Model of the lead-sniper data collection pipeline (src/src/*.py).       *)
(*                                                                         *)
(* Texts are sequences of one-character strings.  The module is kept in    *)
(* ASCII, so a Cyrillic letter is written "#" followed by its Latin        *)
(* transliteration: "#I" is the capital letter I of the tax-ID label,      *)
(* "#i" its lower case, "#m" "#l" "#n" spell the million suffix, and so    *)
(* on.  Python's None is the empty sequence and a present value v is <<v>>.*)
(***************************************************************************)
EXTENDS Integers, Sequences, FiniteSets, TLC

VARIABLES
    fn,          \* the operation under way ("idle" when none)
    arg,         \* its argument
    ret,         \* its result, <<>> until it has returned
    min_revenue, \* config.search_params.min_revenue
    companies,   \* DataCollectionPipeline.companies
    stage,       \* position of DataCollectionPipeline.run
    attempt,     \* WebScraper.fetch_page: loop variable `attempt`
    outcome,     \* how the call or process under way has ended so far
    events       \* what it has done outside memory, in order: the delays,
                 \* requests, failures and sleeps of fetch_page, the
                 \* fetches of the scorer, the files written by a run

vars == <<fn, arg, ret, min_revenue, companies, stage, attempt, outcome, events>>

None == <<>>
Some(v) == <<v>>

-----------------------------------------------------------------------------
(* Characters                                                              *)

Digits == {"0", "1", "2", "3", "4", "5", "6", "7", "8", "9"}

IsDigit(c) == c \in Digits

IsSpace(c) == c \in {" ", "\t"}

\* str.lower() on one character (identity on characters without case)
LowerChar(c) ==
    CASE c = "#I" -> "#i"
      [] c = "#N" -> "#n"
      [] c = "#M" -> "#m"
      [] c = "#L" -> "#l"
      [] c = "#R" -> "#r"
      [] c = "#D" -> "#d"
      [] c = "#T" -> "#t"
      [] c = "#Y" -> "#y"
      [] c = "#S" -> "#s"
      [] c = "I" -> "i"
      [] c = "N" -> "n"
      [] c = "M" -> "m"
      [] c = "B" -> "b"
      [] c = "T" -> "t"
      [] OTHER -> c

Lower(text) == [i \in 1..Len(text) |-> LowerChar(text[i])]

\* text[i..j] (1-based, inclusive)
Slice(text, i, j) == SubSeq(text, i, j)

\* `needle in text` for strings
Contains(text, needle) ==
    \E i \in 1..(Len(text) - Len(needle) + 1) :
        Slice(text, i, i + Len(needle) - 1) = needle

\* str.strip()
RECURSIVE LStrip(_)
LStrip(text) ==
    IF text # <<>> /\ IsSpace(Head(text)) THEN LStrip(Tail(text)) ELSE text

RECURSIVE RStrip(_)
RStrip(text) ==
    IF text # <<>> /\ IsSpace(text[Len(text)])
    THEN RStrip(Slice(text, 1, Len(text) - 1))
    ELSE text

Strip(text) == RStrip(LStrip(text))

\* a superscript two: a digit for str.isdigit(), not one for \d
SuperscriptTwo == "^2"

\* str.isdigit()
IsDigitStr(text) ==
    text # <<>> /\ \A i \in 1..Len(text) : IsDigit(text[i]) \/ text[i] = SuperscriptTwo

-----------------------------------------------------------------------------
(* Utils.extract_inn / Utils.validate_inn                                  *)

\* \d{n} at position j
DigitsAt(text, j, n) ==
    /\ j + n - 1 <= Len(text)
    /\ \A k \in j..(j + n - 1) : IsDigit(text[k])

\* \s* from position j: the position after the white space
RECURSIVE SkipSpaces(_, _)
SkipSpaces(text, j) ==
    IF j <= Len(text) /\ IsSpace(text[j]) THEN SkipSpaces(text, j + 1) ELSE j

\* the label of a pattern at position i, under re.IGNORECASE
LabelAt(text, i, label) ==
    /\ i + Len(label) - 1 <= Len(text)
    /\ Lower(Slice(text, i, i + Len(label) - 1)) = label

\* label\s*[:=]?\s*(\d{10}|\d{12}) tried at position i: group 1, or None.
\* The alternation takes \d{10} first and nothing follows the group, so a
\* longer run of digits is matched by its first ten.
LabelledInnAt(text, i, label) ==
    IF ~LabelAt(text, i, label) THEN None
    ELSE LET j1 == SkipSpaces(text, i + Len(label))
             j2 == IF j1 <= Len(text) /\ text[j1] \in {":", "="} THEN j1 + 1 ELSE j1
             j3 == SkipSpaces(text, j2)
         IN  IF DigitsAt(text, j3, 10) THEN Some(Slice(text, j3, j3 + 9))
             ELSE IF DigitsAt(text, j3, 12) THEN Some(Slice(text, j3, j3 + 11))
             ELSE None

\* (?=\D|$) after position j - 1
NoDigitAt(text, j) == j > Len(text) \/ ~IsDigit(text[j])

\* (\d{10}|\d{12})(?=\D|$) tried at position i: group 1, or None
BareInnAt(text, i) ==
    IF DigitsAt(text, i, 10) /\ NoDigitAt(text, i + 10)
    THEN Some(Slice(text, i, i + 9))
    ELSE IF DigitsAt(text, i, 12) /\ NoDigitAt(text, i + 12)
    THEN Some(Slice(text, i, i + 11))
    ELSE None

\* re.search: the match at the leftmost position that has one
RECURSIVE SearchFrom(_, _, _)
SearchFrom(text, i, pattern) ==
    IF i > Len(text) THEN None
    ELSE LET m == IF pattern = "bare" THEN BareInnAt(text, i)
                  ELSE IF pattern = "cyr" THEN LabelledInnAt(text, i, <<"#i", "#n", "#n">>)
                  ELSE LabelledInnAt(text, i, <<"i", "n", "n">>)
         IN  IF m # None THEN m ELSE SearchFrom(text, i + 1, pattern)

\* inn_patterns, in the order they are tried
inn_patterns == <<"cyr", "bare", "lat">>

RECURSIVE ExtractInnFrom(_, _)
ExtractInnFrom(text, p) ==
    IF p > Len(inn_patterns) THEN None
    ELSE LET m == SearchFrom(text, 1, inn_patterns[p])
         IN  IF m # None THEN m ELSE ExtractInnFrom(text, p + 1)

ExtractInn(text) == IF text = <<>> THEN None ELSE ExtractInnFrom(text, 1)

ValidateInn_AnyLength(inn) ==
    /\ inn # <<>>
    /\ IsDigitStr(inn)

ValidateInn(inn) ==
    /\ inn # <<>>
    /\ IsDigitStr(inn)
    /\ Len(inn) \in {10, 12}

\* parse_company_data, the tax-ID part: the normalized tax ID, or None when
\* the record is rejected for its tax ID
NormalizeInn(raw_inn) ==
    LET extracted == IF raw_inn # <<>> THEN ExtractInn(raw_inn) ELSE None
        inn1 == IF extracted # None THEN extracted[1] ELSE raw_inn
        inn == Strip(inn1)
    IN  IF ValidateInn(inn) THEN Some(inn) ELSE None

-----------------------------------------------------------------------------
(* Idle values of the variables an operation does not use                  *)

IdleCall == fn = "idle" /\ arg = <<>> /\ ret = <<>>

IdlePipeline == companies = <<>> /\ stage = "idle"

IdleFetch == attempt = 0 /\ outcome = "idle" /\ events = <<>>

\* config.search_params.min_revenue of get_default_config
DefaultMinRevenue == 100000000

-----------------------------------------------------------------------------
(* Tax-ID extraction on bounded texts                                      *)

MaxInnDigits == 13

DigitChar(d) == <<"0", "1", "2", "3", "4", "5", "6", "7", "8", "9">>[d + 1]

\* a run of n digits, each position with its own digit so that slices differ
DigitRun(n) == [i \in 1..n |-> DigitChar(i % 10)]

InnPrefixes ==
    { <<>>,
      <<"#I", "#N", "#N">>,
      <<"#I", "#N", "#N", ":", " ">>,
      <<"#i", "#n", "#n", " ">>,
      <<"I", "N", "N", " ", "=", " ">>,
      <<"i", "n", "n", ":">>,
      <<"x", " ">>,
      <<" ">> }

InnSuffixes == { <<>>, <<" ">>, <<"x">>, <<",", " ", "7">> }

InnTexts ==
    { p \o DigitRun(n) \o s : p \in InnPrefixes, n \in 0..MaxInnDigits, s \in InnSuffixes }

InitInn ==
    /\ fn = "normalize_inn"
    /\ arg \in InnTexts
    /\ ret = <<>>
    /\ min_revenue = DefaultMinRevenue
    /\ IdlePipeline /\ IdleFetch

\* parse_company_data up to the tax-ID validation
NormalizeInnCall ==
    /\ fn = "normalize_inn" /\ ret = <<>>
    /\ ret' = <<NormalizeInn(arg)>>
    /\ UNCHANGED <<fn, arg, min_revenue, companies, stage, attempt, outcome, events>>

NextInn == NormalizeInnCall

SpecInn == InitInn /\ [][NextInn]_vars

\* the maximal runs of digits of a text
MaximalDigitRuns(text) ==
    { Slice(text, i, j) : <<i, j>> \in
        { ij \in (1..Len(text)) \X (1..Len(text)) :
            /\ ij[1] <= ij[2]
            /\ \A k \in ij[1]..ij[2] : IsDigit(text[k])
            /\ NoDigitAt(text, ij[2] + 1)
            /\ (ij[1] = 1 \/ ~IsDigit(text[ij[1] - 1])) } }

\* C1: tax-ID extraction yields a value only when the tax identifier in the
\* text is exactly 10 or 12 digits: the value is a whole run of digits of the
\* text, 10 or 12 long, never a slice of a longer run.
C1_TaxIdExactlyTenOrTwelve ==
    (fn = "normalize_inn" /\ ret # <<>> /\ ret[1] # None) =>
        /\ Len(ret[1][1]) \in {10, 12}
        /\ ret[1][1] \in MaximalDigitRuns(arg)

-----------------------------------------------------------------------------
(* Evidence texts.  Where the code works on words (the evidence scorer and *)
(* the evidence filter) a text is a sequence of words and punctuation      *)
(* marks; Russian words are transliterated.                                *)

\* str.lower() on one word
LowerWord(w) ==
    CASE w = "Priznaki" -> "priznaki"
      [] w = "CAT-sistem" -> "cat-sistem"
      [] w = "Oshibka" -> "oshibka"
      [] w = "Ne" -> "ne"
      [] w = "Net" -> "net"
      [] w = "URL" -> "url"
      [] w = "Upominanie" -> "upominanie"
      [] w = "Glavnaya" -> "glavnaya"
      [] w = "Vakansii" -> "vakansii"
      [] w = "Razdel" -> "razdel"
      [] w = "SDL" -> "sdl"
      [] w = "Trados" -> "trados"
      [] w = "Studio" -> "studio"
      [] w = "Smartcat" -> "smartcat"
      [] w = "memoQ" -> "memoq"
      [] w = "Memsource" -> "memsource"
      [] w = "Phrase" -> "phrase"
      [] w = "XLIFF" -> "xliff"
      [] w = "XTM" -> "xtm"
      [] w = "Wordfast" -> "wordfast"
      [] w = "Transit" -> "transit"
      [] w = "Across" -> "across"
      [] w = "Lingvotek" -> "lingvotek"
      [] w = "Promt_ru" -> "promt_ru"
      [] w = "Careers" -> "careers"
      [] w = "Welcome" -> "welcome"
      [] OTHER -> w

LowerWords(text) == [i \in 1..Len(text) |-> LowerWord(text[i])]

\* the four markers analyze_company_website attaches with cat_score 0
NoSiteMarker == <<"Net", "veb-saita", "ili", "nevernyi", "URL">>
FetchFailedMarker == <<"Ne", "udalos", "zagruzit", "sait">>
NoEvidenceMarker == <<"Priznaki", "CAT-sistem", "ne", "obnaruzheny">>
\* f'Oshibka analiza: {str(e)}'
ErrorMarker(e) == <<"Oshibka", "analiza", ":">> \o e

-----------------------------------------------------------------------------
(* DataCollectionPipeline.filter_by_cat_evidence                           *)

strong_keywords == <<"trados", "memoq", "smartcat", "memsource", "phrase">>

HasValidCatEvidence_NoOverride(company) ==
    LET evidence == LowerWords(company.cat_evidence)
        cat_score == company.cat_score
    IN  IF \/ evidence = <<>>
           \/ Contains(evidence, <<"ne", "obnaruzheny">>)
           \/ Contains(evidence, <<"oshibka">>)
           \/ Contains(evidence, <<"ne", "udalos">>)
        THEN FALSE
        ELSE cat_score >= 2

HasValidCatEvidence(company) ==
    LET evidence == LowerWords(company.cat_evidence)
        cat_score == company.cat_score
    IN  IF \/ evidence = <<>>
           \/ Contains(evidence, <<"ne", "obnaruzheny">>)
           \/ Contains(evidence, <<"oshibka">>)
           \/ Contains(evidence, <<"ne", "udalos">>)
        THEN FALSE
        ELSE IF cat_score >= 2 THEN TRUE
        ELSE \E k \in 1..Len(strong_keywords) : Contains(evidence, <<strong_keywords[k]>>)

\* [c for c in self.companies if has_valid_cat_evidence(c)]
FilterByCatEvidence(cs) == SelectSeq(cs, HasValidCatEvidence)

-----------------------------------------------------------------------------
(* Company records.  A key the dict does not hold reads as the default     *)
(* the code passes to .get(): "" / <<>> for texts, None for numbers that   *)
(* were not found, 0 for cat_score.  cat_keywords_found, a string joined   *)
(* from a set, is kept as the set of the positions in cat_keywords.        *)

BlankCompany ==
    [ inn |-> <<>>, name |-> <<>>, revenue |-> None, site |-> <<>>,
      employees |-> None, source |-> "unknown",
      cat_evidence |-> <<>>, cat_product |-> <<>>, cat_score |-> 0,
      cat_keywords_found |-> {},
      size_category |-> "", revenue_category |-> "" ]

\* the elements of a list
Range(seq) == { seq[i] : i \in 1..Len(seq) }

\* the lists of at most n elements of S
ListsUpTo(S, n) == UNION { [1..k -> S] : k \in 0..n }

-----------------------------------------------------------------------------
(* The evidence filter on bounded lists of scored records                  *)

MaxScore == 2
MaxFilterList == 2

EvidenceTexts ==
    { <<>>,
      NoSiteMarker,
      FetchFailedMarker,
      NoEvidenceMarker,
      ErrorMarker(<<"timeout">>),
      ErrorMarker(<<"trados">>),
      <<"Glavnaya", "stranitsa", ":", "xliff">>,
      <<"Vakansii", ":", "tm", ",", "localization", "platform">>,
      <<"Glavnaya", "stranitsa", ":", "smartcat">>,
      <<"Glavnaya", "stranitsa", ":", "Trados">>,
      <<"Upominanie", "produktov", ":", "memoq", ";", "Vakansii", ":", "memoq">>,
      <<"Glavnaya", "stranitsa", ":", "phrase", "tms">>,
      <<"Razdel", "uslug", ":", "memsource", "editor">> }

ScoredRecords ==
    { [BlankCompany EXCEPT !.cat_evidence = t, !.cat_score = n] :
        t \in EvidenceTexts, n \in 0..MaxScore }

InitEvidenceFilter ==
    /\ stage = "evidence_filter"
    /\ companies \in ListsUpTo(ScoredRecords, MaxFilterList)
    /\ arg = companies
    /\ fn = "idle" /\ ret = <<>>
    /\ min_revenue = DefaultMinRevenue
    /\ IdleFetch

FilterByCatEvidenceStage_Reenters ==
    /\ stage = "evidence_filter"
    /\ companies' = IF companies = <<>> THEN companies ELSE FilterByCatEvidence(companies)
    /\ stage' = "detect"
    /\ UNCHANGED <<fn, arg, ret, min_revenue, attempt, outcome, events>>

\* filter_by_cat_evidence (step 5 of run)
FilterByCatEvidenceStage ==
    /\ stage = "evidence_filter"
    /\ companies' = IF companies = <<>> THEN companies ELSE FilterByCatEvidence(companies)
    /\ stage' = "save"
    /\ UNCHANGED <<fn, arg, ret, min_revenue, attempt, outcome, events>>

NextEvidenceFilter == FilterByCatEvidenceStage

SpecEvidenceFilter == InitEvidenceFilter /\ [][NextEvidenceFilter]_vars

\* the evidence text is the text of one of the four negative markers
IsNegativeMarker(text) ==
    \/ text \in {NoSiteMarker, FetchFailedMarker, NoEvidenceMarker}
    \/ (Len(text) >= 3 /\ Slice(text, 1, 3) = ErrorMarker(<<>>))

\* the evidence text mentions one of the strong product keywords
MentionsStrongKeyword(text) ==
    \E i \in 1..Len(text) :
        LowerWord(text[i]) \in {"trados", "memoq", "smartcat", "memsource", "phrase"}

EvidenceFiltered == stage = "save" /\ fn = "idle"

\* C3: the evidence filter rejects every record whose evidence_score is 0,
\* whatever its evidence text contains.
C3_ZeroScoreAlwaysRejected ==
    EvidenceFiltered => \A i \in 1..Len(companies) : companies[i].cat_score # 0

\* C4: the evidence filter accepts a record only if its evidence text is none
\* of the four negative markers (no-site included) and its score is >= 2 or
\* its text mentions a strong keyword.
C4_AcceptedOnlyWithoutMarker ==
    EvidenceFiltered =>
        \A i \in 1..Len(companies) :
            /\ ~IsNegativeMarker(companies[i].cat_evidence)
            /\ \/ companies[i].cat_score >= 2
               \/ MentionsStrongKeyword(companies[i].cat_evidence)

\* C5: for a record with an evidence text that is present and not a negative
\* marker: score 1 passes exactly when the text mentions a strong keyword,
\* and score >= 2 passes without any.
C5_StrongKeywordOverride ==
    EvidenceFiltered =>
        \A i \in 1..Len(arg) :
            LET c == arg[i]
                kept == c \in Range(companies)
            IN  (c.cat_evidence # <<>> /\ ~IsNegativeMarker(c.cat_evidence)) =>
                    /\ (c.cat_score = 1 => (kept <=> MentionsStrongKeyword(c.cat_evidence)))
                    /\ (c.cat_score >= 2 => kept)

C5_Witness ==
    /\ EvidenceFiltered
    /\ Len(arg) = 2 /\ Len(companies) = 1
    /\ arg[1].cat_score = 1 /\ ~MentionsStrongKeyword(arg[1].cat_evidence)
    /\ arg[1].cat_evidence # <<>> /\ ~IsNegativeMarker(arg[1].cat_evidence)
    /\ arg[2].cat_score = 1 /\ MentionsStrongKeyword(arg[2].cat_evidence)
    /\ companies[1] = arg[2]

-----------------------------------------------------------------------------
(* Python numbers.  An int of unbounded size is a sequence of decimal      *)
(* digits, most significant first, without leading zeros (zero is <<0>>).  *)
(* A float is a double: a 53-bit significand times a power of two; the     *)
(* operators below compute float(text) * multiplier and int() of it with   *)
(* the double's round-half-to-even, on exact integers.                     *)

CharDigit(c) ==
    CASE c = "0" -> 0 [] c = "1" -> 1 [] c = "2" -> 2 [] c = "3" -> 3 [] c = "4" -> 4
      [] c = "5" -> 5 [] c = "6" -> 6 [] c = "7" -> 7 [] c = "8" -> 8 [] c = "9" -> 9

RECURSIVE Norm(_)
Norm(d) == IF Len(d) > 1 /\ Head(d) = 0 THEN Norm(Tail(d)) ELSE IF d = <<>> THEN <<0>> ELSE d

\* d * c + carry for a small c, digit by digit from the right
RECURSIVE MulAdd(_, _, _)
MulAdd(d, c, carry) ==
    IF d = <<>>
    THEN IF carry = 0 THEN <<>> ELSE MulAdd(<<>>, c, carry \div 10) \o <<carry % 10>>
    ELSE LET v == d[Len(d)] * c + carry
         IN  MulAdd(SubSeq(d, 1, Len(d) - 1), c, v \div 10) \o <<v % 10>>

MulSmall(d, c) == Norm(MulAdd(d, c, 0))

AddSmall(d, c) == Norm(MulAdd(d, 1, c))

\* long division of d by a small c: [q |-> quotient, r |-> remainder]
RECURSIVE DivFrom(_, _, _, _)
DivFrom(d, i, c, rem) ==
    IF i > Len(d) THEN [q |-> <<>>, r |-> rem]
    ELSE LET v == rem * 10 + d[i]
             rest == DivFrom(d, i + 1, c, v % c)
         IN  [q |-> <<v \div c>> \o rest.q, r |-> rest.r]

DivSmall(d, c) == LET x == DivFrom(d, 1, c, 0) IN [q |-> Norm(x.q), r |-> x.r]

RECURSIVE LexLess(_, _, _)
LexLess(a, b, i) ==
    IF i > Len(a) THEN FALSE
    ELSE IF a[i] # b[i] THEN a[i] < b[i]
    ELSE LexLess(a, b, i + 1)

\* a < b
DecLess(a, b) ==
    IF Len(a) # Len(b) THEN Len(a) < Len(b) ELSE LexLess(a, b, 1)

IsOdd(d) == d[Len(d)] % 2 = 1

\* 10^k as a small integer
RECURSIVE Pow10(_)
Pow10(k) == IF k = 0 THEN 1 ELSE 10 * Pow10(k - 1)

\* d * 10^k
Shift10(d, k) == Norm(d \o [i \in 1..k |-> 0])

\* d * 2^n
RECURSIVE Times2Pow(_, _)
Times2Pow(d, n) ==
    IF n = 0 \/ d = <<0>> THEN d ELSE Times2Pow(MulSmall(d, 2), n - 1)

\* floor(d / 2^n)
RECURSIVE Div2Pow(_, _)
Div2Pow(d, n) ==
    IF n = 0 \/ d = <<0>> THEN d ELSE Div2Pow(DivSmall(d, 2).q, n - 1)

TwoPow52 == <<4, 5, 0, 3, 5, 9, 9, 6, 2, 7, 3, 7, 0, 4, 9, 6>>
TwoPow53 == <<9, 0, 0, 7, 1, 9, 9, 2, 5, 4, 7, 4, 0, 9, 9, 2>>

\* n * 2^t with t the least for which n * 2^t >= bound: [n, t]
RECURSIVE ScaleUp(_, _, _)
ScaleUp(n, t, bound) ==
    IF DecLess(n, bound) THEN ScaleUp(MulSmall(n, 2), t + 1, bound) ELSE [n |-> n, t |-> t]

\* float(text) for the decimal m / 10^k, 0 < m / 10^k < 2^53: the double
\* sig / 2^t nearest to it (ties to even)
ToDouble(m, k) ==
    LET den == Pow10(k)
        sc == ScaleUp(m, 0, MulSmall(TwoPow52, den))
        qr == DivSmall(sc.n, den)
        up == 2 * qr.r > den \/ (2 * qr.r = den /\ IsOdd(qr.q))
    IN  [sig |-> IF up THEN AddSmall(qr.q, 1) ELSE qr.q, t |-> sc.t]

\* p halved until it is below 2^53, remembering the bits dropped:
\* [p, s, half, sticky]
RECURSIVE ScaleDown(_, _, _, _)
ScaleDown(p, s, half, sticky) ==
    IF DecLess(p, TwoPow53) THEN [p |-> p, s |-> s, half |-> half, sticky |-> sticky]
    ELSE LET qr == DivSmall(p, 2)
         IN  ScaleDown(qr.q, s + 1, qr.r, sticky \/ half = 1)

\* the double nearest to the exact product p (ties to even): sig * 2^s
RoundDouble(p) ==
    LET sc == ScaleDown(p, 0, 0, FALSE)
        up == sc.half = 1 /\ (sc.sticky \/ IsOdd(sc.p))
    IN  [sig |-> IF up THEN AddSmall(sc.p, 1) ELSE sc.p, s |-> sc.s]

\* int(float(text) * 10^e) for the decimal m / 10^k
IntOfProduct_Exact(m, k, e) ==
    IF e >= k THEN Shift10(m, e - k) ELSE DivSmall(m, Pow10(k - e)).q

IntOfProduct(m, k, e) ==
    IF Norm(m) = <<0>> THEN <<0>>
    ELSE LET x == ToDouble(Norm(m), k)
             y == RoundDouble(Shift10(x.sig, e))
         IN  IF y.s >= x.t THEN Times2Pow(y.sig, y.s - x.t)
             ELSE Div2Pow(y.sig, x.t - y.s)

-----------------------------------------------------------------------------
(* Utils.parse_revenue                                                     *)

\* re.sub(r'[^\d.,]', '', revenue_text).replace(',', '.')
CleanText(text) ==
    LET kept == SelectSeq(text, LAMBDA c : IsDigit(c) \/ c \in {".", ","})
    IN  [i \in 1..Len(kept) |-> IF kept[i] = "," THEN "." ELSE kept[i]]

\* the power of ten of the multiplier, in the order the suffixes are tested
MultiplierExp(text) ==
    LET low == Lower(text)
    IN  IF \/ Contains(low, <<"#m", "#l", "#n">>)
           \/ Contains(low, <<"m", "i", "l", "l", "i", "o", "n">>)
        THEN 6
        ELSE IF \/ Contains(low, <<"#m", "#l", "#r", "#d">>)
                \/ Contains(low, <<"b", "i", "l", "l", "i", "o", "n">>)
        THEN 9
        ELSE IF \/ Contains(low, <<"#t", "#y", "#s">>)
                \/ Contains(low, <<"t", "h", "o", "u", "s", "a", "n", "d">>)
        THEN 3
        ELSE 0

\* float() accepts the cleaned text: digits with at most one point
IsDecimalText(clean) ==
    /\ \E i \in 1..Len(clean) : IsDigit(clean[i])
    /\ Cardinality({i \in 1..Len(clean) : clean[i] = "."}) <= 1

\* the digits of the cleaned text, as a number
Mantissa(clean) ==
    LET ds == SelectSeq(clean, IsDigit)
    IN  Norm([i \in 1..Len(ds) |-> CharDigit(ds[i])])

\* the number of digits after the point
FractionDigits(clean) ==
    IF \E i \in 1..Len(clean) : clean[i] = "."
    THEN Len(clean) - (CHOOSE i \in 1..Len(clean) : clean[i] = ".")
    ELSE 0

ParseRevenue(revenue_text) ==
    IF revenue_text = <<>> THEN None
    ELSE LET clean_text == CleanText(revenue_text)
             multiplier == MultiplierExp(revenue_text)
         IN  IF clean_text = <<>> THEN None
             ELSE IF ~IsDecimalText(clean_text) THEN None  \* ValueError
             ELSE Some(IntOfProduct(Mantissa(clean_text), FractionDigits(clean_text),
                                    multiplier))

-----------------------------------------------------------------------------
(* Revenue parsing on bounded texts                                        *)

MaxRevenueInt == 10

\* the decimal digits of a small natural number, as characters
RECURSIVE NatChars(_)
NatChars(n) == IF n < 10 THEN <<DigitChar(n)>> ELSE NatChars(n \div 10) \o <<DigitChar(n % 10)>>

RevenueNumbers ==
    { NatChars(n) : n \in 0..MaxRevenueInt }
    \cup { NatChars(n) \o <<".">> \o <<DigitChar(f)>> : n \in 0..MaxRevenueInt, f \in 0..9 }
    \cup { <<"1", " ", "2", "3", "4", " ", "5", "6", "7">>,
           <<"1", "0", ",", "5">>,
           <<"1", ".", "2", ".", "3">>,
           <<"N", "/", "A">>,
           <<"1", "5", "0">> }

RevenueUnits ==
    { <<>>,
      <<" ", "#m", "#l", "#n">>,
      <<" ", "#m", "#l", "#r", "#d">>,
      <<" ", "#t", "#y", "#s">>,
      <<" ", "#t", "#y", "#s", ".">>,
      <<" ", "M", "i", "l", "l", "i", "o", "n">> }

RevenueCurrencies == { <<>>, <<" ", "#rub">> }

RevenueTexts ==
    { n \o u \o c : n \in RevenueNumbers, u \in RevenueUnits, c \in RevenueCurrencies }

InitRevenue ==
    /\ fn = "parse_revenue"
    /\ arg \in RevenueTexts
    /\ ret = <<>>
    /\ min_revenue = DefaultMinRevenue
    /\ IdlePipeline /\ IdleFetch

ParseRevenueCall ==
    /\ fn = "parse_revenue" /\ ret = <<>>
    /\ ret' = <<ParseRevenue(arg)>>
    /\ UNCHANGED <<fn, arg, min_revenue, companies, stage, attempt, outcome, events>>

NextRevenue == ParseRevenueCall

SpecRevenue == InitRevenue /\ [][NextRevenue]_vars

\* C8: parse_revenue returns the decimal number formed by the digits of the
\* text times the factor of its unit token, and null when no digits remain
\* or the number cannot be parsed.
C8_RevenueIsNumberTimesUnit ==
    (fn = "parse_revenue" /\ ret # <<>>) =>
        LET clean == CleanText(arg)
        IN  IF IsDecimalText(clean)
            THEN ret[1] = Some(IntOfProduct_Exact(Mantissa(clean), FractionDigits(clean),
                                                  MultiplierExp(arg)))
            ELSE ret[1] = None

-----------------------------------------------------------------------------
(* CompanyParser.deduplicate_companies                                     *)

RECURSIVE DedupFrom_LastWins(_, _, _)
DedupFrom_LastWins(cs, i, seen_inns) ==
    IF i > Len(cs) THEN <<>>
    ELSE LET inn == cs[i].inn
         IN  IF inn # <<>> /\ ~(\E j \in (i + 1)..Len(cs) : cs[j].inn = inn)
             THEN <<cs[i]>> \o DedupFrom_LastWins(cs, i + 1, seen_inns \cup {inn})
             ELSE DedupFrom_LastWins(cs, i + 1, seen_inns)

\* the loop over companies[i..], with the tax IDs seen so far
RECURSIVE DedupFrom(_, _, _)
DedupFrom(cs, i, seen_inns) ==
    IF i > Len(cs) THEN <<>>
    ELSE LET inn == cs[i].inn
         IN  IF inn # <<>> /\ inn \notin seen_inns
             THEN <<cs[i]>> \o DedupFrom(cs, i + 1, seen_inns \cup {inn})
             ELSE DedupFrom(cs, i + 1, seen_inns)

DeduplicateCompanies_LastWins(cs) == DedupFrom_LastWins(cs, 1, {})

RECURSIVE DedupFrom_EmptyIsATaxId(_, _, _)
DedupFrom_EmptyIsATaxId(cs, i, seen_inns) ==
    IF i > Len(cs) THEN <<>>
    ELSE LET inn == cs[i].inn
         IN  IF inn \notin seen_inns
             THEN <<cs[i]>> \o DedupFrom_EmptyIsATaxId(cs, i + 1, seen_inns \cup {inn})
             ELSE DedupFrom_EmptyIsATaxId(cs, i + 1, seen_inns)

DeduplicateCompanies_EmptyIsATaxId(cs) == DedupFrom_EmptyIsATaxId(cs, 1, {})

DeduplicateCompanies(cs) == DedupFrom(cs, 1, {})

-----------------------------------------------------------------------------
(* Deduplication on bounded lists                                          *)

MaxDedupList == 4

Inn10 == DigitRun(10)
Inn12 == DigitRun(12)

\* records that differ in name so that a kept record can be told from a
\* dropped one with the same tax ID
DedupRecords ==
    { [BlankCompany EXCEPT !.inn = i, !.name = n] :
        i \in {<<>>, Inn10, Inn12}, n \in {<<"A">>, <<"B">>} }

InitDedup ==
    /\ fn = "deduplicate_companies"
    /\ arg \in ListsUpTo(DedupRecords, MaxDedupList)
    /\ ret = <<>>
    /\ min_revenue = DefaultMinRevenue
    /\ IdlePipeline /\ IdleFetch

DeduplicateCompaniesCall ==
    /\ fn = "deduplicate_companies" /\ ret = <<>>
    /\ ret' = <<DeduplicateCompanies(arg)>>
    /\ UNCHANGED <<fn, arg, min_revenue, companies, stage, attempt, outcome, events>>

NextDedup == DeduplicateCompaniesCall

SpecDedup == InitDedup /\ [][NextDedup]_vars

\* the positions of a list that hold the first record of a tax ID
FirstPositions(cs) ==
    { i \in 1..Len(cs) : cs[i].inn # <<>> /\ \A j \in 1..(i - 1) : cs[j].inn # cs[i].inn }

\* the k-th smallest element of a set of numbers
Kth(S, k) == CHOOSE i \in S : Cardinality({j \in S : j <= i}) = k

\* C6: deduplicate_companies is stable and first-wins: the output is the
\* subsequence of the input made of the first record of each distinct tax ID,
\* in input order, and no two output records share a tax ID.
C6_DedupStableFirstWins ==
    (fn = "deduplicate_companies" /\ ret # <<>>) =>
        LET out == ret[1]
            first == FirstPositions(arg)
        IN  /\ Len(out) = Cardinality(first)
            /\ \A k \in 1..Len(out) : out[k] = arg[Kth(first, k)]
            /\ \A k, l \in 1..Len(out) : out[k].inn = out[l].inn => k = l

\* [A(tax=1), B(tax=2), C(tax=1)] gives [A, B]
C6_Witness ==
    /\ fn = "deduplicate_companies" /\ ret # <<>>
    /\ Len(arg) = 3
    /\ arg[1].inn = arg[3].inn /\ arg[1].inn # arg[2].inn
    /\ arg[1].name # arg[3].name
    /\ arg[1].inn # <<>> /\ arg[2].inn # <<>>
    /\ ret[1] = <<arg[1], arg[2]>>

-----------------------------------------------------------------------------
(* Raw fields.  A scraped field is None, a number or a text:               *)
(* [kind |-> "none" | "int" | "str", val |-> ...].                         *)

NoneIn == [kind |-> "none", val |-> <<>>]
IntIn(n) == [kind |-> "int", val |-> n]
StrIn(t) == [kind |-> "str", val |-> t]

\* a Python int that fits the model's integers
RECURSIVE DecToInt(_)
DecToInt(d) ==
    IF d = <<>> THEN 0 ELSE 10 * DecToInt(SubSeq(d, 1, Len(d) - 1)) + d[Len(d)]

\* Utils.normalize_text: strip, then re.sub(r'\s+', ' ', ...)
RECURSIVE CollapseSpaces(_)
CollapseSpaces(text) ==
    IF text = <<>> THEN <<>>
    ELSE IF IsSpace(Head(text))
    THEN <<" ">> \o CollapseSpaces(LStrip(text))
    ELSE <<Head(text)>> \o CollapseSpaces(Tail(text))

NormalizeText(text) == CollapseSpaces(Strip(text))

\* Utils.parse_employees: the first run r'(\d[\d\s]*)' without its spaces
RECURSIVE DigitsAndSpacesFrom(_, _)
DigitsAndSpacesFrom(text, i) ==
    IF i <= Len(text) /\ (IsDigit(text[i]) \/ IsSpace(text[i]))
    THEN <<text[i]>> \o DigitsAndSpacesFrom(text, i + 1)
    ELSE <<>>

ParseEmployees(employees_text) ==
    IF ~(\E i \in 1..Len(employees_text) : IsDigit(employees_text[i])) THEN None
    ELSE LET first == CHOOSE i \in 1..Len(employees_text) :
                          /\ IsDigit(employees_text[i])
                          /\ \A j \in 1..(i - 1) : ~IsDigit(employees_text[j])
             num_str == SelectSeq(DigitsAndSpacesFrom(employees_text, first),
                                  LAMBDA c : c # " ")
         IN  IF \E i \in 1..Len(num_str) : ~IsDigit(num_str[i])
             THEN None  \* ValueError: white space other than ' ' inside the number
             ELSE Some(DecToInt([i \in 1..Len(num_str) |-> CharDigit(num_str[i])]))

\* CompanyParser.parse_revenue_field
ParseRevenueField(revenue_input) ==
    IF revenue_input.kind = "none" THEN None
    ELSE IF revenue_input.kind = "int" THEN Some(revenue_input.val)
    ELSE LET parsed == ParseRevenue(revenue_input.val)
         IN  IF parsed = None THEN None ELSE Some(DecToInt(parsed[1]))

\* CompanyParser.parse_employees_field
ParseEmployeesField(employees_input) ==
    IF employees_input.kind = "none" THEN None
    ELSE IF employees_input.kind = "int" THEN Some(employees_input.val)
    ELSE ParseEmployees(employees_input.val)

\* a 'site' value that is not a string (a number scraped as such)
NotTextSite == <<"<number>">>
IsTextSite(site) == site # NotTextSite

\* the website of parse_company_data: a URL is a sequence of parts, the
\* scheme first when it has one
NormalizeSite(site) ==
    IF site # <<>> /\ IsTextSite(site) /\ Head(site) \notin {"http://", "https://"}
    THEN <<"https://">> \o site
    ELSE site

-----------------------------------------------------------------------------
(* CompanyParser.parse_company_data: the parsed record, or None for {}     *)

ParseCompanyData_RejectsMinimum(raw_company, min_rev) ==
    LET inn == NormalizeInn(raw_company.inn)
        name == NormalizeText(raw_company.name)
        revenue == ParseRevenueField(raw_company.revenue)
    IN  IF inn = None THEN None
        ELSE IF name = <<>> THEN None
        ELSE IF revenue = None \/ revenue[1] <= min_rev THEN None
        ELSE Some([raw_company EXCEPT
                      !.inn = inn[1],
                      !.name = name,
                      !.revenue = revenue,
                      !.site = NormalizeSite(raw_company.site),
                      !.employees = ParseEmployeesField(raw_company.employees)])

ParseCompanyData(raw_company, min_rev) ==
    LET inn == NormalizeInn(raw_company.inn)
        name == NormalizeText(raw_company.name)
        revenue == ParseRevenueField(raw_company.revenue)
    IN  IF inn = None THEN None
        ELSE IF name = <<>> THEN None
        ELSE IF revenue = None \/ revenue[1] < min_rev THEN None
        ELSE Some([raw_company EXCEPT
                      !.inn = inn[1],
                      !.name = name,
                      !.revenue = revenue,
                      !.site = NormalizeSite(raw_company.site),
                      !.employees = ParseEmployeesField(raw_company.employees)])

\* CompanyParser.parse_multiple_companies
RECURSIVE ParseMultipleCompanies(_, _)
ParseMultipleCompanies(raw_companies, min_rev) ==
    IF raw_companies = <<>> THEN <<>>
    ELSE LET parsed_company == ParseCompanyData(Head(raw_companies), min_rev)
         IN  parsed_company \o ParseMultipleCompanies(Tail(raw_companies), min_rev)

MeetsCriteria_NameOptional(company, min_rev) ==
    /\ company.revenue # None
    /\ ~(company.revenue[1] < min_rev)
    /\ ValidateInn(company.inn)

\* CompanyParser.filter_companies_by_criteria, one company.  A revenue of
\* None makes the comparison raise TypeError, which skips the company.
MeetsCriteria(company, min_rev) ==
    /\ company.revenue # None
    /\ ~(company.revenue[1] < min_rev)
    /\ ValidateInn(company.inn)
    /\ company.name # <<>>

FilterCompaniesByCriteria(cs, min_rev) ==
    SelectSeq(cs, LAMBDA c : MeetsCriteria(c, min_rev))

PassesThreshold_AboveOnly(company, min_rev) == company.revenue[1] > min_rev

\* DataCollectionPipeline.filter_companies, one company
PassesThreshold(company, min_rev) == company.revenue[1] >= min_rev

FilterCompanies(cs, min_rev) == SelectSeq(cs, LAMBDA c : PassesThreshold(c, min_rev))

-----------------------------------------------------------------------------
(* CompanyParser.enrich_with_additional_data                               *)

QueryParts == {"?utm=1"}

\* re.sub(r'\?.*$', '', site)
RECURSIVE StripQuery(_)
StripQuery(site) ==
    IF site = <<>> \/ Head(site) \in QueryParts THEN <<>>
    ELSE <<Head(site)>> \o StripQuery(Tail(site))

SizeCategory(employees) ==
    IF employees <= 15 THEN "micro"
    ELSE IF employees <= 100 THEN "small"
    ELSE IF employees <= 250 THEN "medium"
    ELSE "large"

RevenueCategory(revenue) ==
    IF revenue >= 1000000000 THEN "large"
    ELSE IF revenue >= 500000000 THEN "medium"
    ELSE "small"

\* one company; `if employees:` is false for None and for 0.  re.sub on a
\* site that is not a string raises TypeError, and the handler appends the
\* company as it came.
EnrichCompany(company) ==
    LET employees == company.employees
        sized == IF employees # None /\ employees[1] # 0
                 THEN [company EXCEPT !.size_category = SizeCategory(employees[1])]
                 ELSE company
    IN  IF ~IsTextSite(company.site) THEN company
        ELSE [sized EXCEPT !.revenue_category = RevenueCategory(company.revenue[1]),
                           !.site = StripQuery(company.site)]

EnrichWithAdditionalData(cs) == [i \in 1..Len(cs) |-> EnrichCompany(cs[i])]

-----------------------------------------------------------------------------
(* The revenue threshold, in the three places that apply it                *)

SmallMinRevenue == 5
ThresholdDelta == 2
MaxThresholdList == 2

MinRevenues == {SmallMinRevenue, DefaultMinRevenue}

\* the revenues around the threshold
NearThreshold(m) == { m + d : d \in (0 - ThresholdDelta)..ThresholdDelta }

\* a text without a number in it
NoNumberText == <<"-">>

RawThresholdRecords(m) ==
    { [BlankCompany EXCEPT !.inn = i, !.name = n, !.revenue = r, !.employees = e] :
        i \in {Inn10, <<"#I", "#N", "#N", " ">> \o DigitRun(5), DigitRun(11), <<>>},
        n \in {<<"A">>, <<" ">>, <<>>},
        r \in {NoneIn, StrIn(NoNumberText)}
                 \cup { IntIn(v) : v \in NearThreshold(m) }
                 \cup { StrIn(NatChars(v)) : v \in NearThreshold(m) },
        e \in {NoneIn, StrIn(NoNumberText), IntIn(7)} }

ParsedThresholdRecords(m) ==
    { [BlankCompany EXCEPT !.inn = i, !.name = n, !.revenue = r] :
        i \in {Inn10, DigitRun(5)},
        n \in {<<"A">>, <<>>},
        r \in {None} \cup { Some(v) : v \in NearThreshold(m) } }

FilteredThresholdRecords(m) ==
    { [BlankCompany EXCEPT !.inn = Inn10, !.name = n, !.revenue = Some(v)] :
        n \in {<<"A">>, <<"B">>}, v \in NearThreshold(m) }

InitThreshold ==
    /\ min_revenue \in MinRevenues
    /\ ret = <<>>
    /\ IdleFetch
    /\ \/ /\ fn = "parse_company_data"
          /\ arg \in RawThresholdRecords(min_revenue)
          /\ IdlePipeline
       \/ /\ fn = "filter_companies_by_criteria"
          /\ arg \in ListsUpTo(ParsedThresholdRecords(min_revenue), MaxThresholdList)
          /\ IdlePipeline
       \/ /\ fn = "idle"
          /\ stage = "filter"
          /\ companies \in ListsUpTo(FilteredThresholdRecords(min_revenue), MaxThresholdList)
          /\ arg = companies

ParseCompanyDataCall ==
    /\ fn = "parse_company_data" /\ ret = <<>>
    /\ ret' = <<ParseCompanyData(arg, min_revenue)>>
    /\ UNCHANGED <<fn, arg, min_revenue, companies, stage, attempt, outcome, events>>

FilterCompaniesByCriteriaCall ==
    /\ fn = "filter_companies_by_criteria" /\ ret = <<>>
    /\ ret' = <<FilterCompaniesByCriteria(arg, min_revenue)>>
    /\ UNCHANGED <<fn, arg, min_revenue, companies, stage, attempt, outcome, events>>

\* filter_companies (step 3 of run)
FilterCompaniesStage ==
    /\ stage = "filter"
    /\ companies' = IF companies = <<>> THEN companies
                    ELSE FilterCompanies(companies, min_revenue)
    /\ stage' = "detect"
    /\ UNCHANGED <<fn, arg, ret, min_revenue, attempt, outcome, events>>

NextThreshold ==
    \/ ParseCompanyDataCall
    \/ FilterCompaniesByCriteriaCall
    \/ FilterCompaniesStage

SpecThreshold == InitThreshold /\ [][NextThreshold]_vars

\* the integer revenue of a raw field, when it is one
RawRevenue(r) ==
    IF r.kind = "int" THEN Some(r.val)
    ELSE IF r.kind = "str" /\ r.val # NoNumberText
    THEN Some(DecToInt([i \in 1..Len(r.val) |-> CharDigit(r.val[i])]))
    ELSE None

\* C7: the revenue threshold is a pure boundary check: wherever it is
\* applied, a record that is acceptable otherwise passes exactly when its
\* revenue is >= the configured minimum (revenue = M passes, M - 1 does not).
C7_ThresholdIsBoundaryCheck ==
    /\ (fn = "parse_company_data" /\ ret # <<>>) =>
          LET rev == RawRevenue(arg.revenue)
              acceptable == ValidateInn(arg.inn) /\ NormalizeText(arg.name) # <<>>
          IN  /\ (rev # None /\ acceptable /\ rev[1] >= min_revenue) => ret[1] # None
              /\ (rev # None /\ rev[1] < min_revenue) => ret[1] = None
    /\ (fn = "filter_companies_by_criteria" /\ ret # <<>>) =>
          \A i \in 1..Len(arg) :
              LET c == arg[i]
                  acceptable == ValidateInn(c.inn) /\ c.name # <<>>
                  kept == c \in Range(ret[1])
              IN  /\ (c.revenue # None /\ acceptable /\ c.revenue[1] >= min_revenue) => kept
                  /\ (c.revenue # None /\ c.revenue[1] < min_revenue) => ~kept
    /\ (fn = "idle" /\ stage = "detect") =>
          \A i \in 1..Len(arg) :
              (arg[i] \in Range(companies)) <=> (arg[i].revenue[1] >= min_revenue)

\* one record at the minimum and one a unit below it enter step 3; the first
\* alone leaves it
C7_Witness ==
    /\ fn = "idle" /\ stage = "detect"
    /\ Len(arg) = 2
    /\ arg[1].revenue = Some(min_revenue - 1)
    /\ arg[2].revenue = Some(min_revenue)
    /\ companies = <<arg[2]>>

-----------------------------------------------------------------------------
(* Bucket assignment                                                       *)

MaxEnrichList == 2

EmployeeCounts == {0, 1, 15, 16, 100, 101, 250, 251}
EnrichRevenues == {DefaultMinRevenue, 499999999, 500000000, 999999999, 1000000000}

EnrichRecords ==
    { [BlankCompany EXCEPT !.inn = Inn10, !.name = <<"A">>, !.revenue = Some(r),
                           !.employees = e] :
        r \in EnrichRevenues, e \in {None} \cup { Some(n) : n \in EmployeeCounts } }

InitEnrich ==
    /\ fn = "enrich_with_additional_data"
    /\ arg \in ListsUpTo(EnrichRecords, MaxEnrichList)
    /\ ret = <<>>
    /\ min_revenue = DefaultMinRevenue
    /\ IdlePipeline /\ IdleFetch

EnrichWithAdditionalDataCall ==
    /\ fn = "enrich_with_additional_data" /\ ret = <<>>
    /\ ret' = <<EnrichWithAdditionalData(arg)>>
    /\ UNCHANGED <<fn, arg, min_revenue, companies, stage, attempt, outcome, events>>

NextEnrich == EnrichWithAdditionalDataCall

SpecEnrich == InitEnrich /\ [][NextEnrich]_vars

\* C9: every record whose employee count is present gets the size bucket
\* micro (<= 15), small (16..100), medium (101..250) or large (>= 251), and
\* every record gets the revenue bucket small (< 500,000,000), medium
\* (500,000,000..999,999,999) or large (>= 1,000,000,000).
C9_BucketsHaveFixedBreakpoints ==
    (fn = "enrich_with_additional_data" /\ ret # <<>>) =>
        /\ Len(ret[1]) = Len(arg)
        /\ \A i \in 1..Len(arg) :
              LET e == arg[i].employees
                  r == arg[i].revenue[1]
                  out == ret[1][i]
              IN  /\ e # None =>
                        /\ (e[1] <= 15) => out.size_category = "micro"
                        /\ (e[1] \in 16..100) => out.size_category = "small"
                        /\ (e[1] \in 101..250) => out.size_category = "medium"
                        /\ (e[1] >= 251) => out.size_category = "large"
                  /\ (r < 500000000) => out.revenue_category = "small"
                  /\ (r \in 500000000..999999999) => out.revenue_category = "medium"
                  /\ (r >= 1000000000) => out.revenue_category = "large"

-----------------------------------------------------------------------------
(* WebScraper.fetch_page                                                   *)

MaxRetries == 3

\* what one attempt can meet: a hypertext response whose body parses, one
\* whose body the parser rejects, a response of another content type, a
\* non-success status (raise_for_status), a transport-level failure
AttemptResults == {"html", "unparsable_html", "non_html", "http_error", "transport_error"}

RequestExceptions_WithNonHtml == {"http_error", "transport_error", "non_html"}

\* the results that raise requests.exceptions.RequestException
RequestExceptions == {"http_error", "transport_error"}

Event(op, n) == [op |-> op, n |-> n]

FetchUrls == {<<"https://", "a.ru">>}

InitFetch ==
    /\ fn = "fetch_page"
    /\ arg \in [url : FetchUrls, max_retries : 0..MaxRetries, user_agent_rotation : BOOLEAN]
    /\ ret = <<>>
    /\ attempt = 0
    /\ outcome = "running"
    /\ events = <<>>
    /\ min_revenue = DefaultMinRevenue
    /\ IdlePipeline

Backoff_Constant(n) == 1

\* time.sleep(2 ** attempt)
Backoff(n) == 2 ^ n

\* the events of one attempt up to the response
AttemptEvents(n, rotation) ==
    <<Event("delay", n)>>
        \o (IF rotation THEN <<Event("user_agent", n)>> ELSE <<>>)
        \o <<Event("get", n)>>

\* one turn of `for attempt in range(max_retries)`, or the return after it
FetchPageStep ==
    /\ fn = "fetch_page" /\ outcome = "running"
    /\ IF attempt >= arg.max_retries
       THEN /\ ret' = <<None>>
            /\ outcome' = "returned"
            /\ UNCHANGED <<attempt, events>>
       ELSE \E result \in AttemptResults :
              LET seen == events \o AttemptEvents(attempt, arg.user_agent_rotation)
              IN  IF result \in RequestExceptions
                  THEN /\ events' = seen \o <<Event(result, attempt)>>
                                         \o (IF attempt < arg.max_retries - 1
                                             THEN <<Event("sleep", Backoff(attempt))>>
                                             ELSE <<Event("failed", attempt)>>)
                       /\ attempt' = attempt + 1
                       /\ UNCHANGED <<ret, outcome>>
                  ELSE IF result = "non_html"
                  THEN /\ events' = seen
                       /\ ret' = <<None>>
                       /\ outcome' = "returned"
                       /\ UNCHANGED attempt
                  ELSE IF result = "html"
                  THEN /\ events' = seen
                       /\ ret' = <<Some("page")>>
                       /\ outcome' = "returned"
                       /\ UNCHANGED attempt
                  ELSE \* BeautifulSoup raises; no handler of fetch_page takes it
                       /\ events' = seen
                       /\ outcome' = "raised"
                       /\ UNCHANGED <<ret, attempt>>
    /\ UNCHANGED <<fn, arg, min_revenue, companies, stage>>

NextFetch == FetchPageStep

SpecFetch == InitFetch /\ [][NextFetch]_vars

\* C10: fetch_page never raises to its caller: whatever each attempt meets
\* (non-success status, transport failure, non-hypertext content, a failure
\* while parsing the body), it returns parsed page content or nothing.
C10_FetchPageNeverRaises ==
    fn = "fetch_page" => /\ outcome # "raised"
                         /\ (outcome = "returned" => ret \in {<<None>>, <<Some("page")>>})

-----------------------------------------------------------------------------
(* CATDetector.  A page text is a sequence of words and punctuation marks, *)
(* so that the whole-word search \b...\b is the search for a run of        *)
(* tokens.  Each keyword carries the number of characters of its original  *)
(* spelling.                                                               *)

\* config.search_params.keywords_cat followed by the list of __init__
cat_keywords ==
    << 
       <<"translation", "memory">>,
       <<"tm">>,
       <<"tms">>,
       <<"cat", "-", "sistem">>,
       <<"cat", "tool">>,
       <<"lokalizatsiya">>,
       <<"kompyuternaya", "podderzhka", "perevoda">>,
       <<"terminologicheskaya", "baza">>,
       <<"memoq">>,
       <<"trados">>,
       <<"smartcat">>,
       <<"memsource">>,
       <<"phrase">>,
       <<"xtm">>,
       <<"wordfast">>,
       <<"perevodchesk">>,
       <<"pamyat", "perevodov">>,
       <<"tm", "-", "pamyat">>,
       <<"tm", "pamyat">>,
       <<"upravlenie", "perevodami">>,
       <<"sistema", "upravleniya", "perevodami">>,
       <<"platforma", "lokalizatsii">>,
       <<"lokalizatsionnaya", "platforma">>,
       <<"mashinnyy", "perevod">>,
       <<"mt">>,
       <<"mt", "-", "sistema">>,
       <<"qa", "proverka">>,
       <<"quality", "assurance">>,
       <<"lqa">>,
       <<"terminologicheskoe", "upravlenie">>,
       <<"terminologicheskaya", "baza", "dannykh">>,
       <<"tbx">>,
       <<"xliff">>,
       <<"tmx">>,
       <<"sdlxliff">>,
       <<"perevodcheskie", "tekhnologii">>,
       <<"instrumenty", "perevodchika">>,
       <<"computer", "-", "assisted", "translation">>,
       <<"computer", "aided", "translation">>,
       <<"translation", "management", "system">>,
       <<"localization", "platform">>,
       <<"translation", "workflow">>,
       <<"translation", "project", "management">>,
       <<"translation", "memory", "system">>,
       <<"terminology", "management">>,
       <<"translation", "quality", "assurance">>,
       <<"translation", "environment", "tool">>,
       <<"multilingual", "content", "management">>,
       <<"trados", "studio">>,
       <<"sdl", "trados">>,
       <<"memoq", "server">>,
       <<"memoq", "web">>,
       <<"smartcat", ".", "ai">>,
       <<"smartcat", "platform">>,
       <<"memsource", "editor">>,
       <<"phrase", "tms">>,
       <<"xtm", "cloud">>,
       <<"xtm", "workflow">>,
       <<"wordfast", "pro">>,
       <<"transit", "nxt">>,
       <<"across", "language", "server">>,
       <<"lingotek">>,
       <<"prome">>,
       <<"promt">>,
       <<"translate", ".", "ru">>
    >>

\* len(keyword), keyword by keyword
cat_keyword_len ==
    <<18, 2, 3, 10, 8, 11, 31, 22, 5, 6, 8, 9, 6, 3, 8, 11,
      16, 9, 9, 21, 29, 21, 25, 16, 2, 10, 11, 17, 3, 28, 29, 3, 5, 3, 8, 24, 23,
      29, 26, 29, 21, 20, 30, 25, 22, 29, 28, 31,
      13, 10, 12, 9, 11, 17, 16, 10, 9, 12, 12, 11, 22, 8, 5, 5, 12>>

\* config.search_params.cat_products
cat_products ==
    << <<"SDL", "Trados">>, <<"memoQ">>, <<"Smartcat">>, <<"Memsource">>, <<"Phrase">>,
       <<"XTM">>, <<"Wordfast">>, <<"Transit">>, <<"Across">>, <<"Lingvotek">>,
       <<"Promt_ru">> >>

\* self.target_sections[:5]
target_sections == <<"/services", "/technology", "/solutions", "/products", "/translation">>

\* Utils.is_valid_url on a URL given by its parts: scheme, host, then path
ValidHosts == {"a.ru", "b.ru", "c.ru"}

IsValidUrl(url) ==
    /\ Len(url) >= 2
    /\ url[1] \in {"http://", "https://"}
    /\ url[2] \in ValidHosts

\* urljoin(base_url, link) for a link that is an absolute path
UrlJoin(base_url, link) == <<base_url[1], base_url[2], link>>

\* what fetch_page gives for a URL: a page, None, or an exception it lets out
FailedFetch == [status |-> "none", text |-> <<>>, links |-> <<>>]
RaisingFetch == [status |-> "raise", text |-> <<>>, links |-> <<>>]
Page(text, links) == [status |-> "page", text |-> text, links |-> links]

FetchPage(web, url) == IF url \in DOMAIN web THEN web[url] ELSE FailedFetch

\* re.finditer(rf'\b{keyword}\b', text): the number of matches
CountMatches_AtMostOne(text, keyword, i) ==
    IF \E j \in 1..(Len(text) - Len(keyword) + 1) :
           Slice(text, j, j + Len(keyword) - 1) = keyword
    THEN 1 ELSE 0

RECURSIVE CountMatches(_, _, _)
CountMatches(text, keyword, i) ==
    IF i + Len(keyword) - 1 > Len(text) THEN 0
    ELSE IF Slice(text, i, i + Len(keyword) - 1) = keyword
         THEN 1 + CountMatches(text, keyword, i + Len(keyword))
         ELSE CountMatches(text, keyword, i + 1)

Repeat(x, n) == [i \in 1..n |-> x]

\* search_cat_evidence from keyword k on; the pages are shorter than 50
\* characters, so the context of a match is the whole text
RECURSIVE SearchFromKeyword(_, _, _)
SearchFromKeyword(text, k, section) ==
    IF k > Len(cat_keywords) THEN <<>>
    ELSE Repeat([keyword |-> k, context |-> text, section |-> section],
                CountMatches(text, cat_keywords[k], 1))
         \o SearchFromKeyword(text, k + 1, section)

\* search_cat_evidence, with the section the caller writes into the items
SearchCatEvidence(text, section) == SearchFromKeyword(LowerWords(text), 1, section)

\* the links analyze_job_postings follows
CareerWords == {"career", "careers", "job", "jobs", "vacancy", "vacancies",
                "vakansii", "karera", "rabota"}
CareerHrefs == {"/careers", "/jobs", "/vacancies"}

IsCareerLink(link) ==
    \/ \E w \in Range(LowerWords(link.text)) : w \in CareerWords
    \/ link.href \in CareerHrefs

RECURSIVE JobsEvidence(_, _, _)
JobsEvidence(web, base_url, links) ==
    IF links = <<>> THEN <<>>
    ELSE LET jobs_soup == FetchPage(web, UrlJoin(base_url, Head(links).href))
             found == IF jobs_soup.status = "page"
                      THEN SearchCatEvidence(jobs_soup.text, "job_posting")
                      ELSE <<>>
         IN  found \o JobsEvidence(web, base_url, Tail(links))

CareerLinks_Uncapped(main_soup) == SelectSeq(main_soup.links, IsCareerLink)

\* career_links[:3]
CareerLinks(main_soup) ==
    LET career_links == SelectSeq(main_soup.links, IsCareerLink)
    IN  SubSeq(career_links, 1, IF Len(career_links) < 3 THEN Len(career_links) ELSE 3)

AnalyzeJobPostings(web, base_url, main_soup) ==
    JobsEvidence(web, base_url, CareerLinks(main_soup))

RECURSIVE SectionsEvidence(_, _, _)
SectionsEvidence(web, base_url, sections) ==
    IF sections = <<>> THEN <<>>
    ELSE LET section_soup == FetchPage(web, UrlJoin(base_url, Head(sections)))
             found == IF section_soup.status = "page"
                      THEN SearchCatEvidence(section_soup.text, Head(sections))
                      ELSE <<>>
         IN  found \o SectionsEvidence(web, base_url, Tail(sections))

AnalyzeWebsiteSections(web, base_url) == SectionsEvidence(web, base_url, target_sections)

-----------------------------------------------------------------------------
(* CATDetector: products, the evidence description, one company            *)

\* list(set(...))[:n]: the iteration order of a set of strings is not
\* fixed by the program, so every order (and every choice of n) can come out
Orderings(S, n) ==
    LET m == IF Cardinality(S) < n THEN Cardinality(S) ELSE n
    IN  { o \in [1..m -> S] : \A i, j \in 1..m : i # j => o[i] # o[j] }

ProductsFound(evidence_list) ==
    { q \in 1..Len(cat_products) :
        \E i \in 1..Len(evidence_list) :
            LET product_lower == LowerWords(cat_products[q])
            IN  \/ Contains(cat_keywords[evidence_list[i].keyword], product_lower)
                \/ Contains(evidence_list[i].context, product_lower) }

\* ', '.join(cat_products)
RECURSIVE JoinProducts(_)
JoinProducts(qs) ==
    IF qs = <<>> THEN <<>>
    ELSE IF Len(qs) = 1 THEN cat_products[qs[1]]
    ELSE cat_products[qs[1]] \o <<",">> \o JoinProducts(Tail(qs))

ExtractCatProducts(evidence_list) ==
    LET products_found == ProductsFound(evidence_list)
    IN  { JoinProducts(o) : o \in Orderings(products_found, Cardinality(products_found)) }

\* a piece of the description: its words and its length in characters
Piece(words, len) == [words |-> words, len |-> len]

KeywordPiece(k) == Piece(cat_keywords[k], cat_keyword_len[k])

\* ', '.join(keywords)
RECURSIVE JoinKeywords(_)
JoinKeywords(ks) ==
    IF ks = <<>> THEN <<>>
    ELSE IF Len(ks) = 1 THEN <<KeywordPiece(ks[1])>>
    ELSE <<KeywordPiece(ks[1]), Piece(<<",">>, 2)>> \o JoinKeywords(Tail(ks))

\* translate_section_name, for the sections evidence can carry
TranslateSectionName(section) ==
    CASE section = "main_page" -> Piece(<<"Glavnaya", "stranitsa">>, 16)
      [] section = "job_posting" -> Piece(<<"Vakansii">>, 8)
      [] section = "/services" -> Piece(<<"Razdel", "uslug">>, 12)
      [] section = "/technology" -> Piece(<<"Razdel", "tekhnologiy">>, 17)
      [] section = "/products" -> Piece(<<"Razdel", "produktov">>, 16)
      [] section = "/translation" -> Piece(<<"Razdel", "perevodov">>, 16)
      [] section = "/solutions" -> Piece(<<"/", "solutions">>, 10)

\* the sections of the evidence in the order of their first item
RECURSIVE SectionsOf(_, _)
SectionsOf(evidence_list, seen) ==
    IF evidence_list = <<>> THEN <<>>
    ELSE IF Head(evidence_list).section \in seen THEN SectionsOf(Tail(evidence_list), seen)
    ELSE <<Head(evidence_list).section>>
            \o SectionsOf(Tail(evidence_list), seen \cup {Head(evidence_list).section})

product_names == {"trados", "memoq", "smartcat", "memsource"}

IsProductKeyword(k) == \E i \in 1..Len(cat_keywords[k]) : cat_keywords[k][i] \in product_names

\* the "product mentions" description, when there is one
ProductDescriptions(evidence_list) ==
    LET product_keywords == { evidence_list[i].keyword : i \in
                                { j \in 1..Len(evidence_list) : IsProductKeyword(evidence_list[j].keyword) } }
    IN  IF product_keywords = {} THEN {<<>>}
        ELSE { << <<Piece(<<"Upominanie", "produktov">>, 20), Piece(<<":">>, 2)>>
                    \o JoinKeywords(unique_products) >> :
                 unique_products \in Orderings(product_keywords, 3) }

\* one description per section
RECURSIVE SectionDescriptions(_, _)
SectionDescriptions(evidence_list, sections) ==
    IF sections = <<>> THEN {<<>>}
    ELSE LET keywords == { evidence_list[i].keyword : i \in
                             { j \in 1..Len(evidence_list) : evidence_list[j].section = Head(sections) } }
         IN  { << <<TranslateSectionName(Head(sections)), Piece(<<":">>, 2)>>
                     \o JoinKeywords(unique_keywords) >> \o rest :
                 unique_keywords \in Orderings(keywords, 5),
                 rest \in SectionDescriptions(evidence_list, Tail(sections)) }

\* "; ".join(descriptions)
RECURSIVE JoinDescriptions(_)
JoinDescriptions(descriptions) ==
    IF descriptions = <<>> THEN <<>>
    ELSE IF Len(descriptions) = 1 THEN descriptions[1]
    ELSE descriptions[1] \o <<Piece(<<";">>, 2)>> \o JoinDescriptions(Tail(descriptions))

RECURSIVE TotalLen(_)
TotalLen(pieces) == IF pieces = <<>> THEN 0 ELSE Head(pieces).len + TotalLen(Tail(pieces))

\* the first n characters: the pieces that lie within them, and of the piece
\* the cut falls in its length alone; what is left of it is no whole word
RECURSIVE TakeWithin(_, _)
TakeWithin(pieces, n) ==
    IF pieces = <<>> \/ n = 0 THEN <<>>
    ELSE IF Head(pieces).len > n THEN <<Piece(<<>>, n)>>
    ELSE <<Head(pieces)>> \o TakeWithin(Tail(pieces), n - Head(pieces).len)

LimitLength_KeepsFiveHundred(pieces) ==
    IF TotalLen(pieces) > 500
    THEN TakeWithin(pieces, 500) \o <<Piece(<<"...">>, 3)>>
    ELSE pieces

\* full_description[:497] + "..." when len(full_description) > 500
LimitLength(pieces) ==
    IF TotalLen(pieces) > 500
    THEN TakeWithin(pieces, 497) \o <<Piece(<<"...">>, 3)>>
    ELSE pieces

RECURSIVE WordsOf(_)
WordsOf(pieces) == IF pieces = <<>> THEN <<>> ELSE Head(pieces).words \o WordsOf(Tail(pieces))

\* "; ".join(descriptions), before its length is limited
FullDescriptions(evidence_list) ==
    { JoinDescriptions(p \o d) :
        p \in ProductDescriptions(evidence_list),
        d \in SectionDescriptions(evidence_list, SectionsOf(evidence_list, {})) }

\* the description of a non-empty evidence list, piece by piece
DescriptionPieces(evidence_list) ==
    { LimitLength(full_description) : full_description \in FullDescriptions(evidence_list) }

PrepareEvidenceDescription(evidence_list) ==
    IF evidence_list = <<>> THEN {NoEvidenceMarker}
    ELSE { WordsOf(pieces) : pieces \in DescriptionPieces(evidence_list) }

\* str(e) of the exception fetch_page lets out
FetchError == <<"parser", "error">>

\* analyze_company_website: the records it can return
AnalyzeCompanyWebsite(company, web) ==
    LET website == company.site
        Marked(text) == [company EXCEPT !.cat_evidence = text, !.cat_product = <<>>,
                                        !.cat_score = 0]
    IN  IF website = <<>> \/ ~IsValidUrl(website) THEN {Marked(NoSiteMarker)}
        ELSE LET main_page_soup == FetchPage(web, website)
             IN  IF main_page_soup.status = "raise" THEN {Marked(ErrorMarker(FetchError))}
                 ELSE IF main_page_soup.status = "none" THEN {Marked(FetchFailedMarker)}
                 ELSE LET all_evidence ==
                              SearchCatEvidence(main_page_soup.text, "main_page")
                                  \o AnalyzeJobPostings(web, website, main_page_soup)
                                  \o AnalyzeWebsiteSections(web, website)
                      IN  IF all_evidence = <<>> THEN {Marked(NoEvidenceMarker)}
                          ELSE { [company EXCEPT
                                     !.cat_evidence = evidence_description,
                                     !.cat_product = products,
                                     !.cat_score = Len(all_evidence),
                                     !.cat_keywords_found =
                                         { all_evidence[i].keyword : i \in 1..Len(all_evidence) }] :
                                   evidence_description \in PrepareEvidenceDescription(all_evidence),
                                   products \in ExtractCatProducts(all_evidence) }

\* analyze_company_website raises before its try block when is_valid_url
\* is given a site that is not a string (re.match raises TypeError)
AnalysisRaises(company) == ~IsTextSite(company.site)

\* str(e) of that TypeError
TypeErrorText == <<"expected", "string">>

RECURSIVE AnalyzeMultipleCompanies_Aborts(_, _)
AnalyzeMultipleCompanies_Aborts(cs, web) ==
    IF cs = <<>> \/ AnalysisRaises(Head(cs))
       \/ (Head(cs).site # <<>> /\ FetchPage(web, Head(cs).site).status = "raise")
    THEN {<<>>}
    ELSE { <<enriched_company>> \o rest :
             enriched_company \in AnalyzeCompanyWebsite(Head(cs), web),
             rest \in AnalyzeMultipleCompanies_Aborts(Tail(cs), web) }

RECURSIVE AnalyzeMultipleCompanies_Unmarked(_, _)
AnalyzeMultipleCompanies_Unmarked(cs, web) ==
    IF cs = <<>> THEN {<<>>}
    ELSE { <<enriched_company>> \o rest :
             enriched_company \in
                 (IF AnalysisRaises(Head(cs)) THEN {Head(cs)}
                  ELSE AnalyzeCompanyWebsite(Head(cs), web)),
             rest \in AnalyzeMultipleCompanies_Unmarked(Tail(cs), web) }

\* analyze_multiple_companies: the lists it can return
RECURSIVE AnalyzeMultipleCompanies(_, _)
AnalyzeMultipleCompanies(cs, web) ==
    IF cs = <<>> THEN {<<>>}
    ELSE { <<enriched_company>> \o rest :
             enriched_company \in
                 (IF AnalysisRaises(Head(cs))
                  THEN {[Head(cs) EXCEPT !.cat_evidence = ErrorMarker(TypeErrorText),
                                         !.cat_product = <<>>, !.cat_score = 0]}
                  ELSE AnalyzeCompanyWebsite(Head(cs), web)),
             rest \in AnalyzeMultipleCompanies(Tail(cs), web) }

-----------------------------------------------------------------------------
(* The pages the scorer requests                                           *)

\* a URL whose host is_valid_url does not accept
InvalidSite == <<"https://", "intranet">>

CompanyFetches_FetchesInvalidSite(company, web) ==
    LET website == company.site
    IN  IF ~IsTextSite(website) THEN <<>>
        ELSE IF website = <<>> \/ ~IsValidUrl(website) THEN <<website>>
        ELSE LET main_page_soup == FetchPage(web, website)
                 career_links == CareerLinks(main_page_soup)
             IN  IF main_page_soup.status # "page" THEN <<website>>
                 ELSE <<website>>
                      \o [i \in 1..Len(career_links) |-> UrlJoin(website, career_links[i].href)]
                      \o [i \in 1..Len(target_sections) |-> UrlJoin(website, target_sections[i])]

CompanyFetches_GoesOnAfterFailure(company, web) ==
    LET website == company.site
    IN  IF ~IsTextSite(website) \/ website = <<>> \/ ~IsValidUrl(website) THEN <<>>
        ELSE LET main_page_soup == FetchPage(web, website)
             IN  IF main_page_soup.status = "raise" THEN <<website>>
                 ELSE <<website>>
                      \o [i \in 1..Len(target_sections) |-> UrlJoin(website, target_sections[i])]

\* the URLs analyze_company_website hands to fetch_page, in order
CompanyFetches(company, web) ==
    LET website == company.site
    IN  IF ~IsTextSite(website) \/ website = <<>> \/ ~IsValidUrl(website) THEN <<>>
        ELSE LET main_page_soup == FetchPage(web, website)
                 career_links == CareerLinks(main_page_soup)
             IN  IF main_page_soup.status # "page" THEN <<website>>
                 ELSE <<website>>
                      \o [i \in 1..Len(career_links) |-> UrlJoin(website, career_links[i].href)]
                      \o [i \in 1..Len(target_sections) |-> UrlJoin(website, target_sections[i])]

RECURSIVE BatchFetches(_, _)
BatchFetches(cs, web) ==
    IF cs = <<>> THEN <<>>
    ELSE LET urls == CompanyFetches(Head(cs), web)
         IN  [i \in 1..Len(urls) |-> Event("fetch", urls[i])] \o BatchFetches(Tail(cs), web)

-----------------------------------------------------------------------------
(* DataCollectionPipeline.run from step 2 on, over a fixed web             *)

\* parse_companies (step 2 of run)
ParseCompaniesStage ==
    /\ stage = "parse"
    /\ companies' =
          IF companies = <<>> THEN companies
          ELSE EnrichWithAdditionalData(
                   FilterCompaniesByCriteria(
                       ParseMultipleCompanies(companies, min_revenue), min_revenue))
    /\ stage' = "filter"
    /\ UNCHANGED <<fn, arg, ret, min_revenue, attempt, outcome, events>>

\* detect_cat_systems (step 4 of run); attempt counts the pages requested
DetectCatSystemsStage ==
    /\ stage = "detect"
    /\ companies' \in (IF companies = <<>> THEN {companies}
                       ELSE AnalyzeMultipleCompanies(companies, arg.web))
    /\ attempt' = IF companies = <<>> THEN attempt
                  ELSE attempt + Len(BatchFetches(companies, arg.web))
    /\ stage' = "evidence_filter"
    /\ UNCHANGED <<fn, arg, ret, min_revenue, outcome, events>>

Chars150Mln == <<"1", "5", "0", " ", "#m", "#l", "#n", " ", "#rub">>
Chars50Mln == <<"5", "0", " ", "#m", "#l", "#n", " ", "#rub">>

SiteA == <<"https://", "a.ru">>
SiteB == <<"https://", "b.ru">>
SiteC == <<"https://", "c.ru">>

\* R1: valid 10-digit tax ID, revenue "150 mln", a site that mentions the product
R1 == [BlankCompany EXCEPT !.inn = Inn10, !.name = <<"A">>, !.revenue = StrIn(Chars150Mln),
                           !.site = <<"a.ru">>, !.employees = NoneIn]

\* R2: an 11-digit tax ID; its other fields are free
R2Records ==
    { [BlankCompany EXCEPT !.inn = DigitRun(11), !.name = <<"B">>, !.revenue = r,
                           !.site = w, !.employees = NoneIn] :
        r \in {StrIn(Chars150Mln), StrIn(Chars50Mln), NoneIn},
        w \in {<<>>, SiteB} }

\* R3: revenue "50 mln"; its other fields are free
R3Records ==
    { [BlankCompany EXCEPT !.inn = Inn10 \o <<"1", "2">>, !.name = <<"C">>,
                           !.revenue = StrIn(Chars50Mln), !.site = w, !.employees = NoneIn] :
        w \in {<<>>, SiteC} }

CareersLink == [text |-> <<"Careers">>, href |-> "/careers"]

\* the pages behind the three sites
Webs ==
    { (SiteA :> Page(<<"SDL", "Trados", "Studio">>, links))
        @@ (UrlJoin(SiteA, "/careers") :> Page(<<"XLIFF">>, <<>>))
        @@ (UrlJoin(SiteA, "/services") :> services)
        @@ (SiteB :> b)
        @@ (SiteC :> Page(<<"memoQ", "server">>, <<>>)) :
        links \in {<<>>, <<CareersLink>>},
        services \in {FailedFetch, Page(<<"tmx">>, <<>>)},
        b \in {Page(<<"Trados">>, <<>>), Page(<<"Welcome">>, <<>>), FailedFetch, RaisingFetch} }

InitEndToEnd ==
    /\ fn = "run"
    /\ ret = <<>>
    /\ min_revenue = DefaultMinRevenue
    /\ IdleFetch
    /\ stage = "parse"
    /\ \E r2 \in R2Records, r3 \in R3Records, web \in Webs :
          /\ arg = [raw_companies |-> <<R1, r2, r3>>, web |-> web]
          /\ companies = arg.raw_companies

NextEndToEnd ==
    \/ ParseCompaniesStage
    \/ FilterCompaniesStage
    \/ DetectCatSystemsStage
    \/ FilterByCatEvidenceStage

SpecEndToEnd == InitEndToEnd /\ [][NextEndToEnd]_vars

\* C2: with the minimum 100,000,000 and the raw records R1 (valid 10-digit
\* tax ID, "150 mln", site mentioning SDL Trados Studio), R2 (11-digit tax
\* ID) and R3 ("50 mln"), after parse, threshold filter, scoring and
\* evidence filter only R1 remains, with revenue 150,000,000 and a
\* non-empty evidence text mentioning Trados.
C2_OnlyFirstRecordSurvives ==
    (fn = "run" /\ stage = "save") =>
        /\ Len(companies) = 1
        /\ companies[1].inn = R1.inn
        /\ companies[1].name = R1.name
        /\ companies[1].revenue = Some(150000000)
        /\ companies[1].cat_evidence # <<>>
        /\ Contains(LowerWords(companies[1].cat_evidence), <<"trados">>)

-----------------------------------------------------------------------------
(* Retry and back-off of fetch_page, read off the event log                *)

EventsOf(op) == SelectSeq(events, LAMBDA e : e.op = op)

\* every attempt of the call so far has failed with a transport/HTTP failure
AllAttemptsFailed ==
    Len(EventsOf("get")) = Len(EventsOf("http_error")) + Len(EventsOf("transport_error"))

\* C11: fetch_page never makes more than max_retries attempts; a delay
\* precedes every attempt; the k-th back-off wait is 2^(k-1) seconds (1, 2,
\* 4, ...) and stands between two consecutive attempts; a call whose
\* attempts all failed returns nothing after exactly max_retries attempts;
\* the first attempt that succeeds ends the call.
C11_RetryWithExponentialBackoff ==
    fn = "fetch_page" =>
        LET gets == EventsOf("get")
            sleeps == EventsOf("sleep")
        IN  /\ Len(gets) <= arg.max_retries
            /\ \A i \in 1..Len(gets) : gets[i].n = i - 1
            /\ \A i \in 1..Len(events) :
                  events[i].op = "get" =>
                      \E j \in 1..(i - 1) :
                          /\ events[j] = Event("delay", events[i].n)
                          /\ \A k \in (j + 1)..(i - 1) : events[k].op = "user_agent"
            /\ \A k \in 1..Len(sleeps) : sleeps[k].n = 2 ^ (k - 1)
            /\ \A i \in 1..Len(events) :
                  events[i].op = "sleep" =>
                      /\ i > 1 /\ events[i - 1].op \in RequestExceptions
                      /\ i < Len(events) => events[i + 1].op = "delay"
            /\ (outcome = "returned" /\ AllAttemptsFailed) =>
                  /\ ret = <<None>>
                  /\ Len(gets) = arg.max_retries
                  /\ Len(sleeps) = (IF arg.max_retries = 0 THEN 0 ELSE arg.max_retries - 1)
            /\ ret = <<Some("page")>> =>
                  /\ outcome = "returned"
                  /\ events[Len(events)].op = "get"
                  /\ Len(gets) = attempt + 1

\* all MaxRetries attempts failed: waits of 1 and 2 seconds between them,
\* nothing returned
C11_Witness ==
    /\ fn = "fetch_page" /\ outcome = "returned" /\ ret = <<None>>
    /\ arg.max_retries = MaxRetries
    /\ AllAttemptsFailed
    /\ Len(EventsOf("get")) = MaxRetries
    /\ Len(EventsOf("sleep")) = MaxRetries - 1
    /\ EventsOf("sleep")[2].n = 2

-----------------------------------------------------------------------------
(* The evidence scorer on bounded lists of parsed companies                *)

MaxScorerList == 2

ScorerRecords ==
    { [BlankCompany EXCEPT !.inn = Inn10, !.name = <<"A">>, !.revenue = Some(150000000),
                           !.revenue_category = "small", !.site = w] :
        w \in {<<>>, InvalidSite, NotTextSite, SiteA, SiteB, SiteC} }

\* four career links on one home page: the first leads nowhere, the fourth
\* is found by its text
JobsLink == [text |-> <<"Welcome">>, href |-> "/jobs"]
VacanciesLink == [text |-> <<"Welcome">>, href |-> "/vacancies"]
TeamLink == [text |-> <<"Careers">>, href |-> "/team"]

\* the pages behind c.ru for the scorer: a keyword twice on the home page
SiteCPages ==
    (SiteC :> Page(<<"tmx", "and", "tmx">>,
                   <<JobsLink, CareersLink, VacanciesLink, TeamLink>>))
      @@ (UrlJoin(SiteC, "/careers") :> Page(<<"XLIFF">>, <<>>))
      @@ (UrlJoin(SiteC, "/vacancies") :> RaisingFetch)
      @@ (UrlJoin(SiteC, "/team") :> Page(<<"memoQ">>, <<>>))
      @@ (UrlJoin(SiteC, "/products") :> Page(<<"Trados">>, <<>>))

ScorerWebs ==
    { SiteCPages @@ w : w \in
        { v \in Webs : /\ v[UrlJoin(SiteA, "/services")] = FailedFetch
                       /\ v[SiteA].links = <<CareersLink>> } }

InitScorer ==
    /\ fn = "analyze_multiple_companies"
    /\ arg \in [companies : ListsUpTo(ScorerRecords, MaxScorerList), web : ScorerWebs]
    /\ ret = <<>>
    /\ min_revenue = DefaultMinRevenue
    /\ IdlePipeline
    /\ attempt = 0 /\ outcome = "idle" /\ events = <<>>

AnalyzeMultipleCompaniesCall ==
    /\ fn = "analyze_multiple_companies" /\ ret = <<>>
    /\ \E enriched_companies \in AnalyzeMultipleCompanies(arg.companies, arg.web) :
          ret' = <<enriched_companies>>
    /\ events' = BatchFetches(arg.companies, arg.web)
    /\ UNCHANGED <<fn, arg, min_revenue, companies, stage, attempt, outcome>>

NextScorer == AnalyzeMultipleCompaniesCall

SpecScorer == InitScorer /\ [][NextScorer]_vars

\* the fields analysis leaves alone
SameInputFields(out, in) ==
    /\ out.inn = in.inn /\ out.name = in.name /\ out.revenue = in.revenue
    /\ out.site = in.site /\ out.employees = in.employees /\ out.source = in.source
    /\ out.size_category = in.size_category
    /\ out.revenue_category = in.revenue_category

\* the analysis of this company meets an exception
AnalysisFails(company, web) ==
    \/ ~IsTextSite(company.site)
    \/ /\ company.site # <<>> /\ IsValidUrl(company.site)
       /\ FetchPage(web, company.site).status = "raise"

HasErrorMarker(company) ==
    /\ Len(company.cat_evidence) >= 3
    /\ Slice(company.cat_evidence, 1, 3) = ErrorMarker(<<>>)

\* C12: analyze_multiple_companies returns one record per input company, in
\* input order, each keeping the input's fields; a company whose analysis
\* raised comes back with the analysis-error marker, no products and score
\* 0, and the companies after it are analysed as they would be alone.
C12_BatchNeverAborted ==
    (fn = "analyze_multiple_companies" /\ ret # <<>>) =>
        /\ Len(ret[1]) = Len(arg.companies)
        /\ \A i \in 1..Len(arg.companies) :
              LET in == arg.companies[i]
                  out == ret[1][i]
              IN  /\ SameInputFields(out, in)
                  /\ AnalysisFails(in, arg.web) =>
                        /\ HasErrorMarker(out)
                        /\ out.cat_product = <<>>
                        /\ out.cat_score = 0
                  /\ ~AnalysisFails(in, arg.web) =>
                        /\ ~HasErrorMarker(out)
                        /\ (in.site = SiteA => out.cat_score >= 3)
                        /\ (in.site = SiteC => out.cat_score = 4)

\* the first company's analysis raised, the second was scored all the same
C12_Witness ==
    /\ fn = "analyze_multiple_companies" /\ ret # <<>>
    /\ Len(arg.companies) = 2
    /\ AnalysisFails(arg.companies[1], arg.web)
    /\ HasErrorMarker(ret[1][1])
    /\ arg.companies[2].site = SiteA
    /\ ret[1][2].cat_score >= 3

-----------------------------------------------------------------------------
(* main(): construction of the pipeline, run() and the exit of the process *)

MaxRunList == 2

\* CompanyCollector.get_company_details_by_url on a fetched company page:
\* the raw record, or None when no valid tax ID is found
CompanyDetails(page) ==
    LET extracted == ExtractInn(page.inn_text)
        inn == IF extracted # None THEN extracted[1] ELSE page.data_inn
    IN  IF inn = <<>> \/ ~ValidateInn(inn) THEN None
        ELSE Some([BlankCompany EXCEPT
                     !.inn = inn,
                     !.name = NormalizeText(page.name),
                     !.revenue = page.revenue,
                     !.employees = NoneIn,
                     !.site = IF IsValidUrl(page.site) THEN page.site ELSE <<>>,
                     !.source = "rusprofile_detail"])

RECURSIVE CollectedFrom(_)
CollectedFrom(pages) ==
    IF pages = <<>> THEN <<>>
    ELSE CompanyDetails(Head(pages)) \o CollectedFrom(Tail(pages))

\* collect_companies: what the collectors returned, merged, then deduplicated
CollectCompanies(pages) == DeduplicateCompanies(CollectedFrom(pages))

InnLabel == <<"#I", "#N", "#N", " ">>

\* a company page: the text holding the label and the tax ID (empty when the
\* page has none), the data-inn attribute (empty when the page has none),
\* the heading, the revenue found and the first outside link
CompanyPage(inn_text, data_inn, revenue, site) ==
    [inn_text |-> inn_text, data_inn |-> data_inn, name |-> <<"A">>,
     revenue |-> revenue, site |-> site]

\* company pages the collectors can meet: tax IDs of 10, 12, 11 and 5 digits
\* after the label, and tax IDs carried by the attribute alone
CompanyPages ==
    { CompanyPage(InnLabel \o DigitRun(10), <<>>, IntIn(150000000), SiteC),
      CompanyPage(InnLabel \o DigitRun(12), <<>>, IntIn(150000000), InvalidSite),
      CompanyPage(InnLabel \o DigitRun(11), <<>>, IntIn(50000000), InvalidSite),
      CompanyPage(InnLabel \o DigitRun(5), DigitRun(5), IntIn(150000000), SiteC),
      CompanyPage(<<>>, Tail(DigitRun(11)), IntIn(150000000), SiteC),
      CompanyPage(<<>>, Tail(DigitRun(11)), IntIn(50000000), SiteC),
      CompanyPage(<<>>, DigitRun(11) \o <<SuperscriptTwo>>, IntIn(150000000), SiteC),
      CompanyPage(InnLabel \o DigitRun(10), <<>>, NoneIn, SiteC),
      CompanyPage(InnLabel \o DigitRun(12), <<>>, IntIn(DefaultMinRevenue), SiteC) }

\* the one web of a run: the page of c.ru names a product
RunWeb == SiteC :> Page(<<"memoQ", "server">>, <<>>)

CsvFile == "data/companies.csv"
ExcelFile == "data/companies.xlsx"
ReportFile == "data/report.txt"

\* a file written whole, and a file left part-written
Written(file, rows) == Event("write", [file |-> file, rows |-> rows])
PartWritten(file) == Event("partial", [file |-> file, rows |-> <<>>])

run_stages ==
    <<"construct", "collect", "parse", "filter", "detect", "evidence_filter",
      "save", "report", "done">>

\* the stages in which the file system can make an operation raise; save
\* and report touch it only when there is a record
RaisingStages == {"construct", "save", "report"}

\* what a stage cut short at some point has written
CutShort(s, cs) ==
    IF cs = <<>> THEN {<<>>}
    ELSE IF s = "save"
    THEN { <<>>,
           <<PartWritten(CsvFile)>>,
           <<Written(CsvFile, cs)>>,
           <<Written(CsvFile, cs), PartWritten(ExcelFile)>>,
           <<Written(CsvFile, cs), Written(ExcelFile, cs)>> }
    ELSE IF s = "report"
    THEN { <<>>, <<PartWritten(ReportFile)>>, <<Written(ReportFile, cs)>> }
    ELSE {<<>>}

\* a line written to the log at the given level
Logged(level) == Event("log", [file |-> level, rows |-> <<>>])

ExitStatus_AlwaysZero(o) == 0

\* the status main ends the process with: sys.exit(1) after an Exception,
\* sys.exit(0) after KeyboardInterrupt, a plain return otherwise
ExitStatus(o) == IF o = "failed" THEN 1 ELSE 0

InitRun ==
    /\ fn = "main"
    /\ arg \in [pages : ListsUpTo(CompanyPages, MaxRunList), web : {RunWeb}]
    /\ ret = <<>>
    /\ min_revenue = DefaultMinRevenue
    /\ companies = <<>>
    /\ stage = "construct"
    /\ attempt = 0
    /\ outcome = "running"
    /\ events = <<>>

\* DataCollectionPipeline.__init__
ConstructPipeline ==
    /\ stage = "construct"
    /\ companies' = <<>>
    /\ stage' = "collect"
    /\ UNCHANGED <<fn, arg, ret, min_revenue, attempt, outcome, events>>

\* collect_companies (step 1 of run)
CollectCompaniesStage ==
    /\ stage = "collect"
    /\ companies' = CollectCompanies(arg.pages)
    /\ stage' = "parse"
    /\ UNCHANGED <<fn, arg, ret, min_revenue, attempt, outcome, events>>

SaveResultsStage_WritesEmptyFiles ==
    /\ stage = "save" /\ fn = "main"
    /\ events' = events \o <<Written(CsvFile, companies), Written(ExcelFile, companies)>>
    /\ stage' = "report"
    /\ UNCHANGED <<fn, arg, ret, min_revenue, companies, attempt, outcome>>

\* save_results (step 6 of run)
SaveResultsStage ==
    /\ stage = "save" /\ fn = "main"
    /\ events' = IF companies = <<>> THEN events
                 ELSE events \o <<Written(CsvFile, companies), Written(ExcelFile, companies)>>
    /\ stage' = "report"
    /\ UNCHANGED <<fn, arg, ret, min_revenue, companies, attempt, outcome>>

\* generate_report (step 7 of run)
GenerateReportStage ==
    /\ stage = "report"
    /\ events' = IF companies = <<>> THEN events
                 ELSE events \o <<Written(ReportFile, companies)>>
    /\ stage' = "done"
    /\ UNCHANGED <<fn, arg, ret, min_revenue, companies, attempt, outcome>>

\* run() and main() return; the interpreter exits with status 0
MainReturns ==
    /\ stage = "done"
    /\ outcome' = "completed"
    /\ ret' = <<ExitStatus(outcome')>>
    /\ stage' = "exited"
    /\ companies' = <<>>
    /\ UNCHANGED <<fn, arg, min_revenue, attempt, events>>

\* KeyboardInterrupt during a stage: no handler below main takes it;
\* main logs and calls sys.exit(0)
Interrupted ==
    /\ fn = "main" /\ stage \in Range(run_stages) \ {"done"}
    /\ \E written \in CutShort(stage, companies) :
          events' = events \o written \o <<Logged("info")>>
    /\ outcome' = "interrupted"
    /\ ret' = <<ExitStatus(outcome')>>
    /\ stage' = "exited"
    /\ companies' = <<>>
    /\ UNCHANGED <<fn, arg, min_revenue, attempt>>

\* an Exception out of a stage: run logs and re-raises, main logs and
\* calls sys.exit(1)
StageRaises ==
    /\ fn = "main" /\ stage \in RaisingStages
    /\ stage \in {"save", "report"} => companies # <<>>
    /\ \E written \in CutShort(stage, companies) :
          events' = events \o written \o <<Logged("error"), Logged("error")>>
    /\ outcome' = "failed"
    /\ ret' = <<ExitStatus(outcome')>>
    /\ stage' = "exited"
    /\ companies' = <<>>
    /\ UNCHANGED <<fn, arg, min_revenue, attempt>>

NextRun ==
    \/ ConstructPipeline
    \/ CollectCompaniesStage
    \/ ParseCompaniesStage
    \/ FilterCompaniesStage
    \/ DetectCatSystemsStage
    \/ FilterByCatEvidenceStage
    \/ SaveResultsStage
    \/ GenerateReportStage
    \/ MainReturns
    \/ Interrupted
    \/ StageRaises

SpecRun == InitRun /\ [][NextRun]_vars

-----------------------------------------------------------------------------
(* Order of the stages                                                     *)

\* the position of a stage in run; the exit of the process comes last
StageRank(s) ==
    IF s = "exited" THEN Len(run_stages) + 1
    ELSE CHOOSE i \in 1..Len(run_stages) : run_stages[i] = s

\* C13: run goes through collect, parse, threshold filter, scoring,
\* evidence filter, persist, report in this one forward order: every step
\* moves to the next stage or leaves the run, no stage is entered twice,
\* and after an exception or an exit no stage executes.
C13_StagesInForwardOrder ==
    [][ fn = "main" =>
          /\ stage' # stage =>
                \/ StageRank(stage') = StageRank(stage) + 1
                \/ stage' = "exited" /\ outcome' \in {"interrupted", "failed"}
          /\ stage' = stage => UNCHANGED vars
          /\ stage = "exited" => stage' = "exited"
          /\ outcome # "running" => UNCHANGED vars ]_vars

\* a run that went through every stage and wrote its three files
C13_Witness ==
    /\ fn = "main" /\ stage = "exited" /\ outcome = "completed"
    /\ Len(events) = 3
    /\ events[1].n.file = CsvFile
    /\ events[2].n.file = ExcelFile
    /\ events[3].n.file = ReportFile

-----------------------------------------------------------------------------
(* Uniqueness of the tax ID in a run                                       *)

UniqueInn(cs) ==
    \A i, j \in 1..Len(cs) : cs[i].inn = cs[j].inn => i = j

\* the stages of a run that come after the parse stage
AfterParse == fn = "main" /\ stage \in {"filter", "detect", "evidence_filter", "save", "report", "done"}

\* C14: after the parse stage no two records of the pipeline's list, and no
\* two rows of a written file, carry the same tax ID, whatever the
\* collectors returned.
C14_TaxIdUniqueAfterParse ==
    /\ AfterParse => UniqueInn(companies)
    /\ fn = "main" =>
          \A k \in 1..Len(events) :
              events[k].op = "write" => UniqueInn(events[k].n.rows)

-----------------------------------------------------------------------------
(* Tax ID and revenue of the records of a run                              *)

\* a tax ID of exactly 10 or 12 decimal digits
IsTenOrTwelveDigits(inn) ==
    Len(inn) \in {10, 12} /\ \A i \in 1..Len(inn) : IsDigit(inn[i])

WellFormed(cs) ==
    \A i \in 1..Len(cs) :
        /\ IsTenOrTwelveDigits(cs[i].inn)
        /\ cs[i].revenue # None
        /\ cs[i].revenue[1] \in Int
        /\ cs[i].revenue[1] >= min_revenue

-----------------------------------------------------------------------------
(* Interruption of a run                                                   *)

\* the result files this run wrote whole, and those it left part-written
FilesWritten == { events[k].n.file : k \in { i \in 1..Len(events) : events[i].op = "write" } }
FilesPartWritten == { events[k].n.file : k \in { i \in 1..Len(events) : events[i].op = "partial" } }

\* C16: an interrupted run has discarded its lists and left either none of
\* its result files or all three of them whole, whatever stage was
\* executing when the interruption arrived.
C16_InterruptionLeavesNoPartialFiles ==
    (fn = "main" /\ outcome = "interrupted") =>
        /\ stage = "exited" /\ companies = <<>>
        /\ FilesPartWritten = {}
        /\ FilesWritten \in {{}, {CsvFile, ExcelFile, ReportFile}}

-----------------------------------------------------------------------------
(* Exit status of the process                                              *)

\* C17: a run ended by an exception of construction or of a stage has
\* logged the error and exits with a status other than zero; a run that
\* completed and a run the user interrupted exit with status zero.
C17_FailureExitsNonZero ==
    fn = "main" =>
        /\ outcome = "failed" =>
              /\ ret # <<>> /\ ret[1] # 0
              /\ events # <<>> /\ events[Len(events)] = Logged("error")
        /\ outcome \in {"completed", "interrupted"} => ret = <<0>>
        /\ outcome = "running" <=> ret = <<>>

\* an exception out of the persist stage after the first file was written
C17_Witness ==
    /\ fn = "main" /\ outcome = "failed" /\ ret = <<1>>
    /\ FilesWritten = {CsvFile}

-----------------------------------------------------------------------------
(* Mandatory and optional fields of parse_company_data                     *)

\* the raw tax ID holds a run of exactly 10 or 12 digits
HasTaxId(raw_inn) == \E run \in MaximalDigitRuns(raw_inn) : Len(run) \in {10, 12}

\* the raw employee count holds a number
HasEmployeeCount(e) == e.kind = "int" \/ (e.kind = "str" /\ e.val # NoNumberText)

\* C18: parse_company_data discards a raw record whenever its tax ID is
\* missing or malformed or its revenue is missing, unparseable or under the
\* minimum; the employee count never decides: a record that is acceptable
\* otherwise is kept, with employees None when the count is missing or
\* unparseable.
C18_MandatoryAndOptionalFields ==
    (fn = "parse_company_data" /\ ret # <<>>) =>
        LET rev == RawRevenue(arg.revenue)
            revenue_ok == rev # None /\ rev[1] >= min_revenue
        IN  /\ ~HasTaxId(arg.inn) => ret[1] = None
            /\ ~revenue_ok => ret[1] = None
            /\ (HasTaxId(arg.inn) /\ revenue_ok /\ NormalizeText(arg.name) # <<>>) =>
                  /\ ret[1] # None
                  /\ ~HasEmployeeCount(arg.employees) => ret[1][1].employees = None

-----------------------------------------------------------------------------
(* Records without a site, and sites whose home page cannot be fetched     *)

\* is url a page of the site (the site itself included)
OnSite(url, site) == Len(url) >= Len(site) /\ SubSeq(url, 1, Len(site)) = site

\* the record has no website, or a string that is not a valid URL
NoValidSite(company) ==
    IsTextSite(company.site) /\ (company.site = <<>> \/ ~IsValidUrl(company.site))

ZeroScored(result, marker) ==
    /\ result.cat_evidence = marker
    /\ result.cat_product = <<>>
    /\ result.cat_score = 0

\* C19: a record with no website or an invalid URL comes back with the
\* no-site marker, no product and score 0, and nothing is fetched for it:
\* no request goes to its site, and a batch of such records fetches nothing.
C19_NoSiteNoFetch ==
    (fn = "analyze_multiple_companies" /\ ret # <<>>) =>
        /\ \A i \in 1..Len(arg.companies) :
              NoValidSite(arg.companies[i]) =>
                  /\ ZeroScored(ret[1][i], NoSiteMarker)
                  /\ \A k \in 1..Len(events) :
                        arg.companies[i].site # <<>> =>
                            ~OnSite(events[k].n, arg.companies[i].site)
        /\ (\A i \in 1..Len(arg.companies) : NoValidSite(arg.companies[i])) =>
              events = <<>>

\* a record without a site and one with an invalid URL were analysed
C19_Witness ==
    /\ fn = "analyze_multiple_companies" /\ ret # <<>>
    /\ Len(arg.companies) = 2
    /\ arg.companies[1].site = <<>>
    /\ arg.companies[2].site = InvalidSite
    /\ ZeroScored(ret[1][2], NoSiteMarker)
    /\ events = <<>>

\* the home page of the record's site cannot be fetched: fetch_page
\* returns nothing for it
HomePageFails(company, web) ==
    /\ ~NoValidSite(company) /\ IsTextSite(company.site)
    /\ FetchPage(web, company.site).status = "none"

\* C20: when the fetch of the home page returns nothing the record comes
\* back with the fetch-failed marker, no product and score 0, and the only
\* request to its site is the one for the home page.
C20_FetchFailedStopsAnalysis ==
    (fn = "analyze_multiple_companies" /\ ret # <<>>) =>
        \A i \in 1..Len(arg.companies) :
            HomePageFails(arg.companies[i], arg.web) =>
                /\ ZeroScored(ret[1][i], FetchFailedMarker)
                /\ \E k \in 1..Len(events) : events[k].n = arg.companies[i].site
                /\ \A k \in 1..Len(events) :
                      OnSite(events[k].n, arg.companies[i].site) =>
                          events[k].n = arg.companies[i].site

\* one record whose home page cannot be fetched: one request in all
C20_Witness ==
    /\ fn = "analyze_multiple_companies" /\ ret # <<>>
    /\ Len(arg.companies) = 1
    /\ HomePageFails(arg.companies[1], arg.web)
    /\ ZeroScored(ret[1][1], FetchFailedMarker)
    /\ events = <<Event("fetch", arg.companies[1].site)>>

-----------------------------------------------------------------------------
(* The evidence score                                                      *)

\* the places of a text where the keyword stands
Occurrences(text, keyword) ==
    { i \in 1..Len(text) :
        /\ i + Len(keyword) - 1 <= Len(text)
        /\ Slice(LowerWords(text), i, i + Len(keyword) - 1) = keyword }

RECURSIVE KeywordOccurrences(_, _)
KeywordOccurrences(text, k) ==
    IF k > Len(cat_keywords) THEN 0
    ELSE Cardinality(Occurrences(text, cat_keywords[k])) + KeywordOccurrences(text, k + 1)

\* the keyword occurrences on the pages fetched for a company
RECURSIVE OccurrencesOnPages(_, _)
OccurrencesOnPages(urls, web) ==
    IF urls = <<>> THEN 0
    ELSE LET soup == FetchPage(web, Head(urls))
         IN  (IF soup.status = "page" THEN KeywordOccurrences(soup.text, 1) ELSE 0)
             + OccurrencesOnPages(Tail(urls), web)

HomePageFetched(company, web) ==
    /\ IsTextSite(company.site) /\ company.site # <<>> /\ IsValidUrl(company.site)
    /\ FetchPage(web, company.site).status = "page"

\* C21: for a company whose home page was fetched, cat_score is the number
\* of keyword occurrences on the home page, the fetched job pages and the
\* fetched subsections together; when there is none the record carries the
\* no-evidence marker and score 0.
C21_ScoreCountsOccurrences ==
    (fn = "analyze_multiple_companies" /\ ret # <<>>) =>
        \A i \in 1..Len(arg.companies) :
            HomePageFetched(arg.companies[i], arg.web) =>
                LET total == OccurrencesOnPages(
                                 CompanyFetches(arg.companies[i], arg.web), arg.web)
                IN  /\ ret[1][i].cat_score = total
                    /\ total = 0 => ZeroScored(ret[1][i], NoEvidenceMarker)
                    /\ total > 0 => ret[1][i].cat_evidence # NoEvidenceMarker

\* c.ru, with a keyword twice on its home page, once on a job page and
\* once in a subsection, scores 4; a home page without a keyword scores 0
C21_Witness ==
    /\ fn = "analyze_multiple_companies" /\ ret # <<>>
    /\ Len(arg.companies) = 2
    /\ arg.companies[1].site = SiteC
    /\ ret[1][1].cat_score = 4
    /\ arg.companies[2].site = SiteB
    /\ HomePageFetched(arg.companies[2], arg.web)
    /\ ZeroScored(ret[1][2], NoEvidenceMarker)

-----------------------------------------------------------------------------
(* analyze_company_website step by step: one fetch_page call per step.     *)
(* stage is the place in the method, attempt the index in the loop under   *)
(* way, events the fetch_page calls made, outcome how the analysis ended,  *)
(* ret the cat_score returned.                                             *)

MaxLinks == 4

Least(a, b) == IF a < b THEN a ELSE b

\* the links of the home page of c.ru, cut to n
LinksUpTo(n) ==
    LET all == SiteCPages[SiteC].links
    IN  SubSeq(all, 1, Least(n, Len(all)))

AnalysisWebs ==
    { (SiteC :> Page(SiteCPages[SiteC].text, LinksUpTo(n))) @@ w :
        n \in 0..MaxLinks, w \in ScorerWebs }

InitAnalysis ==
    /\ fn = "analyze_company_website"
    /\ arg \in [company : ScorerRecords, web : AnalysisWebs]
    /\ ret = <<>>
    /\ min_revenue = DefaultMinRevenue
    /\ companies = <<>>
    /\ stage = "start"
    /\ attempt = 0
    /\ outcome = "running"
    /\ events = <<>>

\* the check of the site and the fetch of the home page
FetchHomePage ==
    /\ fn = "analyze_company_website" /\ stage = "start"
    /\ LET website == arg.company.site
       IN  IF ~IsTextSite(website)
           THEN /\ outcome' = "raised" /\ stage' = "done"
                /\ ret' = <<0>> /\ UNCHANGED <<events, attempt>>
           ELSE IF website = <<>> \/ ~IsValidUrl(website)
           THEN /\ outcome' = "no_site" /\ stage' = "done"
                /\ ret' = <<0>> /\ UNCHANGED <<events, attempt>>
           ELSE LET main_page_soup == FetchPage(arg.web, website)
                IN  /\ events' = <<Event("fetch", website)>>
                    /\ IF main_page_soup.status = "raise"
                       THEN /\ outcome' = "error" /\ stage' = "done"
                            /\ ret' = <<0>> /\ UNCHANGED attempt
                       ELSE IF main_page_soup.status = "none"
                       THEN /\ outcome' = "fetch_failed" /\ stage' = "done"
                            /\ ret' = <<0>> /\ UNCHANGED attempt
                       ELSE /\ stage' = "jobs" /\ attempt' = 1
                            /\ UNCHANGED <<ret, outcome>>
    /\ UNCHANGED <<fn, arg, min_revenue, companies>>

\* analyze_job_postings: one turn of the loop over career_links[:3]
FetchJobPage ==
    /\ fn = "analyze_company_website" /\ stage = "jobs"
    /\ LET career_links == CareerLinks(FetchPage(arg.web, arg.company.site))
       IN  /\ attempt <= Len(career_links)
           /\ events' = Append(events,
                  Event("fetch", UrlJoin(arg.company.site, career_links[attempt].href)))
    /\ attempt' = attempt + 1
    /\ UNCHANGED <<fn, arg, ret, min_revenue, companies, stage, outcome>>

\* analyze_job_postings returns
JobPagesDone ==
    /\ fn = "analyze_company_website" /\ stage = "jobs"
    /\ attempt > Len(CareerLinks(FetchPage(arg.web, arg.company.site)))
    /\ stage' = "sections"
    /\ attempt' = 1
    /\ UNCHANGED <<fn, arg, ret, min_revenue, companies, outcome, events>>

\* analyze_website_sections: one turn of the loop over target_sections[:5]
FetchSection ==
    /\ fn = "analyze_company_website" /\ stage = "sections"
    /\ attempt <= Len(target_sections)
    /\ events' = Append(events,
           Event("fetch", UrlJoin(arg.company.site, target_sections[attempt])))
    /\ attempt' = attempt + 1
    /\ UNCHANGED <<fn, arg, ret, min_revenue, companies, stage, outcome>>

\* the evidence is put together and the record returned
ReturnAnalysis ==
    /\ fn = "analyze_company_website" /\ stage = "sections"
    /\ attempt > Len(target_sections)
    /\ LET website == arg.company.site
           main_page_soup == FetchPage(arg.web, website)
           all_evidence ==
               SearchCatEvidence(main_page_soup.text, "main_page")
                   \o AnalyzeJobPostings(arg.web, website, main_page_soup)
                   \o AnalyzeWebsiteSections(arg.web, website)
       IN  /\ ret' = <<Len(all_evidence)>>
           /\ outcome' = IF all_evidence = <<>> THEN "no_evidence" ELSE "analysed"
    /\ stage' = "done"
    /\ UNCHANGED <<fn, arg, min_revenue, companies, attempt, events>>

NextAnalysis ==
    \/ FetchHomePage
    \/ FetchJobPage
    \/ JobPagesDone
    \/ FetchSection
    \/ ReturnAnalysis

SpecAnalysis == InitAnalysis /\ [][NextAnalysis]_vars

\* the method runs on whenever it can: nothing in it waits
SpecAnalysisLive == SpecAnalysis /\ WF_vars(NextAnalysis)

FetchedUrls == [k \in 1..Len(events) |-> events[k].n]

\* the fetches of a finished analysis whose home page was fetched: the home
\* page, the first three career links of the home page in their order, the
\* five subsections in their order
OrderedFetches(company, web) ==
    LET site == company.site
        career == SelectSeq(web[site].links, IsCareerLink)
        nc == Least(3, Len(career))
    IN  /\ Len(FetchedUrls) = 1 + nc + Len(target_sections)
        /\ FetchedUrls[1] = site
        /\ \A j \in 2..Len(FetchedUrls) : FetchedUrls[j] # site
        /\ \A j \in 1..nc : FetchedUrls[1 + j] = UrlJoin(site, career[j].href)
        /\ \A j \in 1..Len(target_sections) :
              FetchedUrls[1 + nc + j] = UrlJoin(site, target_sections[j])

-----------------------------------------------------------------------------
(* prepare_evidence_description on evidence of up to seven sections        *)

\* the evidence items of one section for a set of keywords, in list order
RECURSIVE SectionEvidence(_, _, _)
SectionEvidence(section, keywords, k) ==
    IF k > Len(cat_keywords) THEN <<>>
    ELSE (IF k \in keywords
          THEN <<[keyword |-> k, context |-> <<>>, section |-> section]>>
          ELSE <<>>)
         \o SectionEvidence(section, keywords, k + 1)

\* keywords by their place in cat_keywords: two of 31 characters, one of 28,
\* one of 29, and a product name
LongKeywords == {7, 48}
MainPageKeywords == { {}, {7}, LongKeywords, {51}, {7, 51} }
LastSectionKeywords == { {}, {30}, {21}, LongKeywords }

DescriptionEvidence ==
    { SectionEvidence("main_page", m, 1)
        \o SectionEvidence("job_posting", mid[1], 1)
        \o SectionEvidence("/services", mid[2], 1)
        \o SectionEvidence("/technology", mid[3], 1)
        \o SectionEvidence("/solutions", mid[4], 1)
        \o SectionEvidence("/products", mid[5], 1)
        \o SectionEvidence("/translation", l, 1) :
        m \in MainPageKeywords,
        mid \in [1..5 -> {{}, LongKeywords}],
        l \in LastSectionKeywords } \ {<<>>}

InitDescription ==
    /\ fn = "prepare_evidence_description"
    /\ arg \in DescriptionEvidence
    /\ ret = <<>>
    /\ min_revenue = DefaultMinRevenue
    /\ IdlePipeline /\ IdleFetch

PrepareEvidenceDescriptionCall ==
    /\ fn = "prepare_evidence_description" /\ ret = <<>>
    /\ \E pieces \in DescriptionPieces(arg) : ret' = <<pieces>>
    /\ UNCHANGED <<fn, arg, min_revenue, companies, stage, attempt, outcome, events>>

NextDescription == PrepareEvidenceDescriptionCall

SpecDescription == InitDescription /\ [][NextDescription]_vars

Ellipsis == Piece(<<"...">>, 3)

\* text is the first 497 characters of full followed by the ellipsis
IsCutOf(text, full) ==
    LET body == SubSeq(text, 1, Len(text) - 1)
    IN  /\ text # <<>> /\ text[Len(text)] = Ellipsis
        /\ TotalLen(body) = 497
        /\ Len(body) <= Len(full)
        /\ \A j \in 1..(Len(body) - 1) : body[j] = full[j]
        /\ \/ body[Len(body)] = full[Len(body)]
           \/ /\ body[Len(body)].words = <<>>
              /\ body[Len(body)].len < full[Len(body)].len

\* C23: the description of a non-empty evidence list is at most 500
\* characters long: a joined description of more than 500 characters comes
\* back as its first 497 characters and the ellipsis, any other unchanged.
C23_DescriptionAtMostFiveHundred ==
    (fn = "prepare_evidence_description" /\ ret # <<>>) =>
        /\ TotalLen(ret[1]) <= 500
        /\ \E full \in FullDescriptions(arg) :
              IF TotalLen(full) > 500
              THEN IsCutOf(ret[1], full) /\ TotalLen(ret[1]) = 500
              ELSE ret[1] = full

\* a joined description of 501 characters came back cut
C23_Witness ==
    /\ fn = "prepare_evidence_description" /\ ret # <<>>
    /\ \E full \in FullDescriptions(arg) :
          TotalLen(full) = 501 /\ IsCutOf(ret[1], full)
    /\ TotalLen(ret[1]) = 500

-----------------------------------------------------------------------------
(* The collectors.  A search page is what fetch_page gave for it and, when *)
(* it is a page, its company links; a link stands for what                 *)
(* get_company_details_by_url returns for it: "none" for None, "rich",     *)
(* "poor" and "unknown" for a record with a revenue of at least the        *)
(* minimum, under it, and None.  attempt is the index of the keyword under *)
(* way, companies the list collected so far, events the number of links    *)
(* processed for each keyword.                                             *)

\* company_links[:20], company_links[:30]
LinksPerKeyword == 20
LinksPerTerm == 30

\* len(search_keywords), len(search_terms)
NumSearchKeywords == 6
NumSearchTerms == 7

FirstLinks_All(links, n) == links

\* links[:n]
FirstLinks(links, n) == SubSeq(links, 1, Least(n, Len(links)))

SearchPage(links) == [status |-> "page", links |-> links]
NoSearchPage == [status |-> "none", links |-> <<>>]
RaisingSearch == [status |-> "raise", links |-> <<>>]

LinkKinds == <<"rich", "none", "poor", "rich", "unknown">>

\* n links of mixed kinds, and n links that all give a record
MixedLinks(n) == [i \in 1..n |-> LinkKinds[(i % Len(LinkKinds)) + 1]]
RichLinks(n) == [i \in 1..n |-> "rich"]

\* the loop over the links of one keyword in search_companies_by_okved:
\* the list, the links processed, and whether the limit was reached
RECURSIVE ProcessKeywordLinks(_, _, _, _)
ProcessKeywordLinks(links, cs, limit, processed) ==
    IF links = <<>> THEN [companies |-> cs, processed |-> processed, reached |-> FALSE]
    ELSE IF Head(links) = "none"
    THEN ProcessKeywordLinks(Tail(links), cs, limit, processed + 1)
    ELSE IF Len(cs) + 1 >= limit
    THEN [companies |-> Append(cs, Head(links)), processed |-> processed + 1,
          reached |-> TRUE]
    ELSE ProcessKeywordLinks(Tail(links), Append(cs, Head(links)), limit, processed + 1)

\* the loop over the links of one term in get_companies_by_revenue_threshold;
\* a revenue of None makes the comparison raise, which skips the link
ProcessTermLinks(links, cs) == cs \o SelectSeq(links, LAMBDA d : d = "rich")

\* the loop over the links in get_companies_from_listorg
ProcessListorgLinks(links) == SelectSeq(links, LAMBDA d : d # "none")

OkvedSearches ==
    { <<a, b, c, c, c, c>> :
        a \in {NoSearchPage, RaisingSearch, SearchPage(RichLinks(LinksPerKeyword + 1))},
        b \in {NoSearchPage, SearchPage(<<>>), SearchPage(MixedLinks(LinksPerKeyword + 5)),
               SearchPage(RichLinks(LinksPerKeyword))},
        c \in {NoSearchPage, SearchPage(MixedLinks(8))} }

TermSearches ==
    { <<a, b, c, c, c, c, c>> :
        a \in {NoSearchPage, RaisingSearch, SearchPage(MixedLinks(LinksPerTerm + 1))},
        b \in {SearchPage(RichLinks(LinksPerTerm)), SearchPage(MixedLinks(2))},
        c \in {NoSearchPage, SearchPage(MixedLinks(3))} }

ListorgSearches ==
    {NoSearchPage, RaisingSearch, SearchPage(<<>>), SearchPage(MixedLinks(3)),
     SearchPage(MixedLinks(8))}

Limits == {1, 5, 25, 100}

InitCollect ==
    /\ ret = <<>>
    /\ min_revenue = DefaultMinRevenue
    /\ companies = <<>>
    /\ stage = "idle"
    /\ attempt = 1
    /\ outcome = "idle"
    /\ events = <<>>
    /\ \/ /\ fn = "search_companies_by_okved"
          /\ arg \in [searches : OkvedSearches, limit : Limits]
       \/ /\ fn = "get_companies_by_revenue_threshold"
          /\ arg \in [searches : TermSearches, limit : {0}]
       \/ /\ fn = "get_companies_from_listorg"
          /\ arg \in [searches : { <<p>> : p \in ListorgSearches }, limit : Limits]

\* search_companies_by_okved: one turn of the loop over the keywords
SearchKeywordStep ==
    /\ fn = "search_companies_by_okved" /\ ret = <<>>
    /\ attempt <= NumSearchKeywords
    /\ LET soup == arg.searches[attempt]
           turn == ProcessKeywordLinks(FirstLinks(soup.links, LinksPerKeyword),
                                       companies, arg.limit, 0)
       IN  IF soup.status # "page"
           THEN /\ events' = Append(events, Event("links", 0))
                /\ UNCHANGED <<companies, ret>>
           ELSE /\ events' = Append(events, Event("links", turn.processed))
                /\ companies' = turn.companies
                /\ ret' = IF turn.reached THEN <<turn.companies>> ELSE ret
    /\ attempt' = attempt + 1
    /\ UNCHANGED <<fn, arg, min_revenue, stage, outcome>>

\* get_companies_by_revenue_threshold: one turn of the loop over the terms
SearchTermStep ==
    /\ fn = "get_companies_by_revenue_threshold" /\ ret = <<>>
    /\ attempt <= NumSearchTerms
    /\ LET soup == arg.searches[attempt]
           links == FirstLinks(soup.links, LinksPerTerm)
       IN  IF soup.status # "page"
           THEN /\ events' = Append(events, Event("links", 0))
                /\ UNCHANGED companies
           ELSE /\ events' = Append(events, Event("links", Len(links)))
                /\ companies' = ProcessTermLinks(links, companies)
    /\ attempt' = attempt + 1
    /\ UNCHANGED <<fn, arg, ret, min_revenue, stage, outcome>>

\* the loop over the keywords or terms is over: return companies
CollectorReturns ==
    /\ \/ fn = "search_companies_by_okved" /\ attempt > NumSearchKeywords
       \/ fn = "get_companies_by_revenue_threshold" /\ attempt > NumSearchTerms
    /\ ret = <<>>
    /\ ret' = <<companies>>
    /\ UNCHANGED <<fn, arg, min_revenue, companies, stage, attempt, outcome, events>>

\* get_companies_from_listorg
GetCompaniesFromListorg ==
    /\ fn = "get_companies_from_listorg" /\ ret = <<>>
    /\ LET soup == arg.searches[1]
           links == FirstLinks(soup.links, arg.limit)
       IN  IF soup.status # "page"
           THEN /\ ret' = <<companies>>
                /\ events' = Append(events, Event("links", 0))
                /\ UNCHANGED companies
           ELSE /\ companies' = ProcessListorgLinks(links)
                /\ ret' = <<companies'>>
                /\ events' = Append(events, Event("links", Len(links)))
    /\ UNCHANGED <<fn, arg, min_revenue, stage, attempt, outcome>>

NextCollect ==
    \/ SearchKeywordStep
    \/ SearchTermStep
    \/ CollectorReturns
    \/ GetCompaniesFromListorg

SpecCollect == InitCollect /\ [][NextCollect]_vars

\* C24: search_companies_by_okved processes at most 20 links for a keyword
\* and never holds more than `limit` records, returning the moment the
\* limit is reached; get_companies_by_revenue_threshold processes at most
\* 30 links for a term; get_companies_from_listorg processes at most
\* `limit` links; a keyword whose search page cannot be fetched adds no
\* record and the keywords after it are still searched.
C24_CollectorsCapTheirWork ==
    /\ fn = "search_companies_by_okved" =>
          /\ \A k \in 1..Len(events) : events[k].n <= 20
          /\ Len(companies) <= arg.limit
          /\ Len(companies) = arg.limit => ret = <<companies>>
          /\ (ret # <<>> /\ Len(ret[1]) < arg.limit) => Len(events) = 6
          /\ \A k \in 1..Len(events) :
                arg.searches[k].status # "page" => events[k].n = 0
    /\ fn = "get_companies_by_revenue_threshold" =>
          /\ \A k \in 1..Len(events) : events[k].n <= 30
          /\ ret # <<>> => Len(events) = 7
          /\ \A k \in 1..Len(events) :
                arg.searches[k].status # "page" => events[k].n = 0
    /\ fn = "get_companies_from_listorg" =>
          \A k \in 1..Len(events) : events[k].n <= arg.limit

\* the first search page cannot be fetched, the second has 25 links of
\* which 20 are processed, and the limit of 25 is reached in the middle of
\* a later keyword
C24_Witness ==
    /\ fn = "search_companies_by_okved" /\ ret # <<>>
    /\ arg.limit = 25
    /\ arg.searches[1].status = "none"
    /\ Len(arg.searches[2].links) = 25
    /\ events[2].n = 20
    /\ Len(ret[1]) = 25
    /\ Len(events) < 6
    /\ events[Len(events)].n < Len(arg.searches[Len(events)].links)

-----------------------------------------------------------------------------
(* Score and marker go together                                            *)

\* C25: in every record the scorer returns, cat_score is 0 exactly when
\* the evidence text is one of the four negative markers, and then there
\* is no matched product; any other record has a score of at least 1 and a
\* description that is not empty.
C25_ZeroScoreIffNegativeMarker ==
    (fn = "analyze_multiple_companies" /\ ret # <<>>) =>
        \A i \in 1..Len(ret[1]) :
            LET r == ret[1][i]
            IN  /\ r.cat_score = 0 <=> IsNegativeMarker(r.cat_evidence)
                /\ r.cat_score = 0 => r.cat_product = <<>>
                /\ r.cat_score # 0 => (r.cat_score >= 1 /\ r.cat_evidence # <<>>)

\* a record whose analysis raised and a record with four evidence items
\* come back together
C25_Witness ==
    /\ fn = "analyze_multiple_companies" /\ ret # <<>>
    /\ Len(ret[1]) = 2
    /\ arg.companies[1].site = NotTextSite
    /\ ret[1][1].cat_score = 0
    /\ ret[1][1].cat_evidence = ErrorMarker(TypeErrorText)
    /\ ret[1][2].cat_score = 4
    /\ ~IsNegativeMarker(ret[1][2].cat_evidence)

-----------------------------------------------------------------------------
(* Step 3 within a run                                                     *)

\* C26: within a run, filter_companies (step 3) never removes a record: the
\* list of companies after step 3 is the list before it, whatever was
\* collected.
C26_StepThreeRemovesNothing ==
    [][(fn = "main" /\ stage = "filter" /\ stage' = "detect")
          => companies' = companies]_vars

\* step 3 has run over a list that holds a record with exactly the minimum
\* revenue
C26_Witness ==
    /\ fn = "main" /\ stage = "detect"
    /\ companies # <<>>
    /\ \E i \in 1..Len(companies) : companies[i].revenue = Some(min_revenue)

-----------------------------------------------------------------------------
(* Records without a tax ID in deduplication                               *)

\* C27: deduplicate_companies drops every record whose tax ID is missing or
\* empty, the first such record included: every record of the output has a
\* non-empty tax ID, and every input record with a non-empty tax ID still has
\* its tax ID in the output.
C27_DedupDropsEmptyTaxId ==
    (fn = "deduplicate_companies" /\ ret # <<>>) =>
        /\ \A k \in 1..Len(ret[1]) : ret[1][k].inn # <<>>
        /\ \A i \in 1..Len(arg) :
              arg[i].inn # <<>> => \E k \in 1..Len(ret[1]) : ret[1][k].inn = arg[i].inn
        /\ Len(ret[1]) <= Cardinality({ i \in 1..Len(arg) : arg[i].inn # <<>> })

\* the list begins with a record without a tax ID, holds another one later,
\* and only the record with a tax ID comes back
C27_Witness ==
    /\ fn = "deduplicate_companies" /\ ret # <<>>
    /\ Len(arg) = 3
    /\ arg[1].inn = <<>> /\ arg[2].inn # <<>> /\ arg[3].inn = <<>>
    /\ ret[1] = <<arg[2]>>

-----------------------------------------------------------------------------
(* The failure kinds of fetch_page                                         *)

\* the number of events of the given kinds
CountEvents(ops) == Cardinality({ k \in 1..Len(events) : events[k].op \in ops })

\* C28: the failure kinds of fetch_page are not retried alike.  A
\* non-success status or a transport failure consumes one attempt each, and
\* fetch_page returns after such a failure only when max_retries attempts
\* are used up.  A response of another content type ends the call on its
\* attempt: nothing is returned, nothing follows the request of that attempt,
\* and the only backoffs are those of the failures before it.
C28_FailureKindsRetriedDifferently ==
    fn = "fetch_page" =>
        /\ CountEvents({"http_error", "transport_error"}) = attempt
        /\ CountEvents({"sleep", "failed"}) = attempt
        /\ (outcome = "returned" /\ events # <<>>
              /\ events[Len(events)].op \in {"sleep", "failed"})
              => (attempt = arg.max_retries /\ ret = <<None>>)
        /\ (outcome = "returned" /\ attempt < arg.max_retries)
              => /\ events[Len(events)] = Event("get", attempt)
                 /\ CountEvents({"get"}) = attempt + 1
                 /\ CountEvents({"sleep"}) = attempt

\* a failed attempt was retried after its backoff, and the retry met a
\* response of another content type: nothing is returned with attempts left
C28_Witness ==
    /\ fn = "fetch_page" /\ outcome = "returned" /\ ret = <<None>>
    /\ arg.max_retries = MaxRetries
    /\ attempt = 1
    /\ CountEvents({"http_error"}) = 1
    /\ CountEvents({"sleep"}) = 1
    /\ events[Len(events)] = Event("get", 1)

-----------------------------------------------------------------------------
(* Stages over an empty list                                               *)

\* the stages of run that work on the list of companies
ListStages == {"parse", "filter", "detect", "evidence_filter", "save", "report"}

\* C29: a stage of a run that starts with an empty list of companies does
\* nothing: the list stays empty, the scorer requests no page, no result
\* file and no report is written, no exception ends the run, and the run
\* goes on to the next stage; from the last stage it completes with status 0.
C29_EmptyListStagesAreNoOps ==
    [][(fn = "main" /\ stage \in ListStages /\ companies = <<>>)
          => /\ outcome' # "failed"
             /\ stage' # "exited" =>
                   /\ StageRank(stage') = StageRank(stage) + 1
                   /\ companies' = <<>>
                   /\ attempt' = attempt
                   /\ events' = events
                   /\ outcome' = "running"]_vars
    /\ [][(fn = "main" /\ stage = "done")
             => (outcome' = "completed" /\ ret' = <<0>>)]_vars

\* a record was collected and parsed, the scorer found it without a site,
\* the evidence filter emptied the list, and the run completed with nothing
\* written
C29_Witness ==
    /\ fn = "main" /\ stage = "exited" /\ outcome = "completed" /\ ret = <<0>>
    /\ Len(arg.pages) = 1
    /\ arg.pages[1].site = InvalidSite /\ arg.pages[1].revenue = IntIn(150000000)
    /\ events = <<>>
    /\ attempt = 0

-----------------------------------------------------------------------------
(* The name as a mandatory field                                           *)

\* the text is empty or made of spaces only
IsBlank(text) == \A k \in 1..Len(text) : text[k] = " "

\* C30: the name is mandatory.  parse_company_data returns nothing for a
\* raw record whose name is missing or blank, whatever its tax ID and
\* revenue, and a record it returns has a name; filter_companies_by_criteria
\* returns no record with an empty name and drops nothing for its name
\* otherwise.
C30_NameIsMandatory ==
    /\ (fn = "parse_company_data" /\ ret # <<>>) =>
          /\ IsBlank(arg.name) => ret[1] = None
          /\ ret[1] # None => ret[1][1].name # <<>>
    /\ (fn = "filter_companies_by_criteria" /\ ret # <<>>) =>
          /\ \A k \in 1..Len(ret[1]) : ret[1][k].name # <<>>
          /\ Len(ret[1]) <= Cardinality({ i \in 1..Len(arg) : arg[i].name # <<>> })

\* a raw record with a tax ID of 10 digits and a revenue above the minimum is
\* rejected for its blank name
C30_Witness ==
    /\ fn = "parse_company_data" /\ ret = <<None>>
    /\ arg.inn = Inn10
    /\ arg.revenue = IntIn(min_revenue + ThresholdDelta)
    /\ arg.name = <<" ">>

====
